---------------------------- MODULE Spec2Model ----------------------------
(***************************************************************************)
(* Model of deck's expression-and-pipeline evaluation engine:              *)
(*   - serde_json::Value with its equality and the f64 view of numbers,    *)
(*   - pipeline::Context (with_var, get, get_path, has, has_path),         *)
(*   - executor::Executor (eval, eval_operator and its helpers),           *)
(*   - executor::traits::MockDatabase (query, insert, update, delete),     *)
(*   - the pipeline runner of spec section 4.2 (no code in the crate).     *)
(*                                                                         *)
(* Strings of the JSON domain (string values, object keys, variable names, *)
(* paths) are sequences of byte codes, so that split('.'), parse::<usize>  *)
(* and String::cmp are computed and not looked up.  Collection names and   *)
(* error messages are only ever compared for equality and are TLA+ strings.*)
(***************************************************************************)
EXTENDS Integers, Sequences, FiniteSets, TLC

VARIABLES
    collections,  \* MockDatabase.collections: name -> sequence of documents
    counter,      \* the counter captured by MockDatabase::new's id generator
    input,        \* the (context, expression) handed to Executor::eval
    last,         \* the last evaluation: its input, the storage before, its result
    run           \* the pipeline run: steps, response, position, Context, outcome

vars == <<collections, counter, input, last, run>>

(***************************************************************************)
(* Bounds of the model.                                                    *)
(***************************************************************************)
MaxEvals == 3   \* evaluations of one session of storage operators
MaxSteps == 2   \* steps of a pipeline
MaxList == 2    \* elements of a condition list or of a merge list
MaxCalls == 2   \* storage calls of one of the parallel requests

(***************************************************************************)
(* Strings as byte sequences.                                              *)
(***************************************************************************)
s_empty == << >>
s_a == <<97>>
s_b == <<98>>
s_ab == <<97, 98>>
s_x == <<120>>
s_T == <<84>>
s_nf == <<110, 102>>
s_id == <<95, 105, 100>>                     \* "_id"
s_id_prefix == <<105, 100, 95>>              \* "id_"
s_title == <<116, 105, 116, 108, 101>>       \* "title"
s_error == <<101, 114, 114, 111, 114>>       \* "error"
s_user == <<117, 115, 101, 114>>             \* "user"
s_items == <<105, 116, 101, 109, 115>>       \* "items"
s_flag == <<102, 108, 97, 103>>              \* "flag"
s_missing == <<109, 105, 115, 115, 105, 110, 103>>  \* "missing"
s_ins == <<105, 110, 115>>                   \* "ins"
s_all == <<97, 108, 108>>                    \* "all"
s_n == <<110>>
s_get == <<36, 103, 101, 116>>               \* "$get"

\* String::cmp / str::cmp: lexicographic on bytes, a proper prefix is Less.
RECURSIVE str_cmp(_, _)
str_cmp(l, r) ==
    IF l = << >> /\ r = << >> THEN "Equal"
    ELSE IF l = << >> THEN "Less"
    ELSE IF r = << >> THEN "Greater"
    ELSE IF Head(l) < Head(r) THEN "Less"
    ELSE IF Head(l) > Head(r) THEN "Greater"
    ELSE str_cmp(Tail(l), Tail(r))

\* str::split('.'): the pieces between the dots; never an empty sequence.
RECURSIVE split_dot(_, _)
split_dot(path, cur) ==
    IF path = << >> THEN <<cur>>
    ELSE IF Head(path) = 46 THEN <<cur>> \o split_dot(Tail(path), << >>)
    ELSE split_dot(Tail(path), Append(cur, Head(path)))

split(path) == split_dot(path, << >>)

\* str::parse::<usize>: an optional '+', then one or more decimal digits.
\* None is -1.  (Overflow of usize needs 20 digits; paths here are shorter.)
RECURSIVE digits_value(_, _)
digits_value(ds, acc) ==
    IF ds = << >> THEN acc
    ELSE IF Head(ds) \in 48..57 THEN digits_value(Tail(ds), acc * 10 + (Head(ds) - 48))
    ELSE -1

parse_usize(part) ==
    LET ds == IF part # << >> /\ Head(part) = 43 THEN Tail(part) ELSE part
    IN  IF ds = << >> THEN -1 ELSE digits_value(ds, 0)

\* format!("{}", c) for a positive integer: its decimal digits.
RECURSIVE to_decimal(_)
to_decimal(n) ==
    IF n < 10 THEN <<48 + n>> ELSE Append(to_decimal(n \div 10), 48 + (n % 10))

(***************************************************************************)
(* serde_json::Value.  A number keeps its representation (serde_json's N:  *)
(* PosInt(u64), NegInt(i64), Float(f64)); its magnitude is                 *)
(* hi * 2^30 + lo + half/2, which holds every integer below 2^54.          *)
(***************************************************************************)
Limb == 2^30      \* radix of the two-limb magnitude
MantHi == 2^23    \* hi limb of 2^53: below it every integer is an exact f64

Null == [t |-> "null"]
Bool(b) == [t |-> "bool", b |-> b]
Str(s) == [t |-> "str", s |-> s]
Arr(a) == [t |-> "arr", a |-> a]
Obj(o) == [t |-> "obj", o |-> o]
EmptyObj == Obj(<< >>)
Obj1(k, v) == Obj([x \in {k} |-> v])
Obj2(k1, v1, k2, v2) == Obj([x \in {k1, k2} |-> IF x = k1 THEN v1 ELSE v2])

Num(k, neg, hi, lo, half) ==
    [t |-> "num", k |-> k, neg |-> neg, hi |-> hi, lo |-> lo, half |-> half]
PosInt(n) == Num("PosInt", FALSE, 0, n, 0)
NegInt(n) == Num("NegInt", TRUE, 0, n, 0)          \* the integer -n, n > 0
Float(neg, n, half) == Num("Float", neg, 0, n, half)
BigInt(hi, lo) == Num("PosInt", FALSE, hi, lo, 0)
BigFloat(hi, lo) == Num("Float", FALSE, hi, lo, 0)

is_null(v) == v.t = "null"

\* Number::as_f64: a Float is itself; a u64/i64 is cast with `as f64`, which
\* rounds to nearest, ties to even.  In [2^53, 2^54) the f64 grid is the even
\* integers.  The result is the f64 as (neg, hi, lo, half); never NaN.
as_f64(n) ==
    IF n.k = "Float" \/ n.hi < MantHi \/ n.lo % 2 = 0
    THEN [neg |-> n.neg, hi |-> n.hi, lo |-> n.lo, half |-> n.half]
    ELSE IF n.lo % 4 = 1
    THEN [neg |-> n.neg, hi |-> n.hi, lo |-> n.lo - 1, half |-> 0]
    ELSE IF n.lo + 1 = Limb
    THEN [neg |-> n.neg, hi |-> n.hi + 1, lo |-> 0, half |-> 0]
    ELSE [neg |-> n.neg, hi |-> n.hi, lo |-> n.lo + 1, half |-> 0]

Reverse(ord) ==
    IF ord = "Less" THEN "Greater" ELSE IF ord = "Greater" THEN "Less" ELSE ord

mag_cmp(a, b) ==
    IF a.hi # b.hi THEN (IF a.hi < b.hi THEN "Less" ELSE "Greater")
    ELSE IF a.lo # b.lo THEN (IF a.lo < b.lo THEN "Less" ELSE "Greater")
    ELSE IF a.half # b.half THEN (IF a.half < b.half THEN "Less" ELSE "Greater")
    ELSE "Equal"

f64_is_zero(a) == a.hi = 0 /\ a.lo = 0 /\ a.half = 0

\* f64::partial_cmp on two finite values (-0.0 and 0.0 are Equal).
f64_partial_cmp(a, b) ==
    IF f64_is_zero(a) /\ f64_is_zero(b) THEN "Equal"
    ELSE IF a.neg # b.neg THEN (IF a.neg THEN "Less" ELSE "Greater")
    ELSE IF a.neg THEN Reverse(mag_cmp(a, b))
    ELSE mag_cmp(a, b)

\* serde_json's PartialEq for N: equal only within one representation.
number_eq(a, b) ==
    /\ a.k = b.k
    /\ IF a.k = "Float"
       THEN f64_partial_cmp(as_f64(a), as_f64(b)) = "Equal"
       ELSE a.hi = b.hi /\ a.lo = b.lo

\* PartialEq for Value (derived): variant by variant, structural.
RECURSIVE value_eq(_, _)
value_eq(a, b) ==
    IF a.t # b.t THEN FALSE
    ELSE IF a.t = "num" THEN number_eq(a, b)
    ELSE IF a.t = "arr"
    THEN /\ Len(a.a) = Len(b.a)
         /\ \A i \in 1..Len(a.a) : value_eq(a.a[i], b.a[i])
    ELSE IF a.t = "obj"
    THEN /\ DOMAIN a.o = DOMAIN b.o
         /\ \A k \in DOMAIN a.o : value_eq(a.o[k], b.o[k])
    ELSE a = b

(***************************************************************************)
(* Results and errors (pipeline::ExecutionError).                          *)
(***************************************************************************)
None == [t |-> "none"]
Some(x) == [t |-> "some", v |-> x]
is_none(x) == x.t = "none"
is_some(x) == x.t # "none"
Ok(v) == [ok |-> TRUE, val |-> v]
Err(e) == [ok |-> FALSE, val |-> e]

path_not_found(path) == [kind |-> "PathNotFound", path |-> path]
type_error_with_types(message, expected, actual) ==
    [kind |-> "TypeError", message |-> message, expected |-> expected, actual |-> actual]
validation_error(message, errors) ==
    [kind |-> "ValidationError", message |-> message, errors |-> errors]
custom(message) == [kind |-> "Custom", message |-> message]

(***************************************************************************)
(* pipeline::Context: a map from variable names to Values.                 *)
(***************************************************************************)
Context_new == << >>

\* A binding that keeps the value a name already has.
with_var_keep_first(ctx, name, value) ==
    [k \in DOMAIN ctx \cup {name} |-> IF k \in DOMAIN ctx THEN ctx[k] ELSE value]

with_var(ctx, name, value) ==
    [k \in DOMAIN ctx \cup {name} |-> IF k = name THEN value ELSE ctx[k]]

set_var(ctx, name, value) ==
    [k \in DOMAIN ctx \cup {name} |-> IF k = name THEN value ELSE ctx[k]]

get(ctx, name) == IF name \in DOMAIN ctx THEN ctx[name] ELSE None

has(ctx, name) == name \in DOMAIN ctx

\* A descent that indexes arrays from one.
RECURSIVE get_path_from_one_based(_, _)
get_path_from_one_based(current, parts) ==
    IF parts = << >> THEN current
    ELSE IF current.t = "obj"
    THEN IF Head(parts) \in DOMAIN current.o
         THEN get_path_from_one_based(current.o[Head(parts)], Tail(parts))
         ELSE None
    ELSE IF current.t = "arr"
    THEN LET index == parse_usize(Head(parts))
         IN  IF index >= 1 /\ index <= Len(current.a)
             THEN get_path_from_one_based(current.a[index], Tail(parts))
             ELSE None
    ELSE None

\* The loop of get_path over parts[1..]: descend objects by key and arrays by
\* parsed index; anything else, or a miss, is None.
RECURSIVE get_path_from(_, _)
get_path_from(current, parts) ==
    IF parts = << >> THEN current
    ELSE IF current.t = "obj"
    THEN IF Head(parts) \in DOMAIN current.o
         THEN get_path_from(current.o[Head(parts)], Tail(parts))
         ELSE None
    ELSE IF current.t = "arr"
    THEN LET index == parse_usize(Head(parts))
         IN  IF index >= 0 /\ index < Len(current.a)
             THEN get_path_from(current.a[index + 1], Tail(parts))
             ELSE None
    ELSE None

get_path(ctx, path) ==
    LET parts == split(path)
    IN  IF parts = << >> THEN None
        ELSE IF parts[1] \in DOMAIN ctx
        THEN get_path_from(ctx[parts[1]], Tail(parts))
        ELSE None

has_path(ctx, path) == is_some(get_path(ctx, path))

(***************************************************************************)
(* executor::traits::MockDatabase.  db is [collections, counter, calls];   *)
(* calls is the log of the provider calls of the evaluation under way,     *)
(* kept by the evaluator.  Every operation runs under the collections      *)
(* mutex, so it is one atomic step.                                        *)
(***************************************************************************)
\* The default id generator: increment the counter, format "id_{counter}".
\* A generator that formats the next number and leaves the counter alone.
id_generator_without_increment(c) ==
    [counter |-> c, id |-> s_id_prefix \o to_decimal(c + 1)]

id_generator(c) == [counter |-> c + 1, id |-> s_id_prefix \o to_decimal(c + 1)]

\* A filter under which a missing field matches whatever the filter asks.
matches_filter_missing_matches(doc, filter) ==
    IF doc.t # "obj" THEN FALSE
    ELSE \A key \in DOMAIN filter :
            key \in DOMAIN doc.o => value_eq(doc.o[key], filter[key])

matches_filter(doc, filter) ==
    IF doc.t # "obj" THEN FALSE
    ELSE \A key \in DOMAIN filter :
            \/ key \in DOMAIN doc.o /\ value_eq(doc.o[key], filter[key])
            \/ key \notin DOMAIN doc.o /\ filter[key].t = "null"

project_fields(doc, select) ==
    IF doc.t # "obj" THEN doc
    ELSE LET fields == {select[i] : i \in 1..Len(select)} \cap DOMAIN doc.o
         IN  Obj([k \in fields |-> doc.o[k]])

\* An update that replaces the document by the update map.
merge_update_replacing(doc, upd) ==
    IF doc.t # "obj" THEN doc ELSE Obj(upd)

merge_update(doc, upd) ==
    IF doc.t # "obj" THEN doc
    ELSE Obj([k \in DOMAIN doc.o \cup DOMAIN upd |->
                IF k \in DOMAIN upd THEN upd[k] ELSE doc.o[k]])

\* Value::get(field) on a document: None unless an object holding the field.
doc_get(doc, field) ==
    IF doc.t = "obj" /\ field \in DOMAIN doc.o THEN doc.o[field] ELSE None

\* The comparator closure of sort_documents.
sort_cmp(a, b, field, order) ==
    LET a_val == doc_get(a, field)
        b_val == doc_get(b, field)
        cmp == IF is_none(a_val) /\ is_none(b_val) THEN "Equal"
               ELSE IF is_none(b_val) THEN "Greater"
               ELSE IF is_none(a_val) THEN "Less"
               ELSE IF a_val.t = "num" /\ b_val.t = "num"
               THEN f64_partial_cmp(as_f64(a_val), as_f64(b_val))
               ELSE IF a_val.t = "str" /\ b_val.t = "str"
               THEN str_cmp(a_val.s, b_val.s)
               ELSE "Equal"
    IN  IF order = "desc" THEN Reverse(cmp) ELSE cmp

\* slice::sort_by is a stable sort: insert each document after the last one
\* that is not Greater than it.
RECURSIVE sort_insert(_, _, _, _)
sort_insert(sorted, doc, field, order) ==
    IF sorted = << >> THEN <<doc>>
    ELSE IF sort_cmp(sorted[Len(sorted)], doc, field, order) = "Greater"
    THEN Append(sort_insert(SubSeq(sorted, 1, Len(sorted) - 1), doc, field, order),
                sorted[Len(sorted)])
    ELSE Append(sorted, doc)

RECURSIVE sort_by(_, _, _, _)
sort_by(docs, n, field, order) ==
    IF n = 0 THEN << >>
    ELSE sort_insert(sort_by(docs, n - 1, field, order), docs[n], field, order)

\* sort is the HashMap in its iteration order, as [field, order] pairs; only the
\* first pair is used.
sort_documents(docs, sort) ==
    IF sort = << >> THEN docs
    ELSE sort_by(docs, Len(docs), sort[1].field, sort[1].order)

RECURSIVE filter_docs(_, _)
filter_docs(docs, filter) ==
    IF docs = << >> THEN << >>
    ELSE IF matches_filter(Head(docs), filter)
    THEN <<Head(docs)>> \o filter_docs(Tail(docs), filter)
    ELSE filter_docs(Tail(docs), filter)

\* The stages of query, in the order the code applies them.
apply_filter(docs, filter) ==
    IF is_some(filter) THEN filter_docs(docs, filter.v) ELSE docs

apply_sort(docs, sort) ==
    IF is_some(sort) THEN sort_documents(docs, sort.v) ELSE docs

apply_skip(docs, skip) ==
    IF is_some(skip) /\ skip.v > 0 THEN SubSeq(docs, skip.v + 1, Len(docs)) ELSE docs

apply_limit(docs, limit) ==
    IF is_some(limit) /\ limit.v < Len(docs) THEN SubSeq(docs, 1, limit.v) ELSE docs

apply_select(docs, select) ==
    IF is_some(select)
    THEN [i \in 1..Len(docs) |-> project_fields(docs[i], select.v)]
    ELSE docs

\* A query that truncates to `limit` before it drops `skip`.
query_limit_before_skip(db, collection, filter, select, limit, skip, sort) ==
    IF collection \notin DOMAIN db.collections THEN Ok(<< >>)
    ELSE Ok(apply_select(
                apply_skip(
                    apply_limit(
                        apply_sort(
                            apply_filter(db.collections[collection], filter),
                            sort),
                        limit),
                    skip),
                select))

query(db, collection, filter, select, limit, skip, sort) ==
    IF collection \notin DOMAIN db.collections THEN Ok(<< >>)
    ELSE Ok(apply_select(
                apply_limit(
                    apply_skip(
                        apply_sort(
                            apply_filter(db.collections[collection], filter),
                            sort),
                        skip),
                    limit),
                select))

\* A document given a generated identity whether or not it brings one.
insert_doc_always_generated(db, document) ==
    LET g == id_generator(db.counter)
    IN  [doc |-> Obj([k \in DOMAIN document \cup {s_id} |->
                       IF k = s_id THEN Str(g.id) ELSE document[k]]),
         counter |-> g.counter]

\* Generate ID if not present.
insert_doc(db, document) ==
    IF s_id \in DOMAIN document
    THEN [doc |-> Obj(document), counter |-> db.counter]
    ELSE LET g == id_generator(db.counter)
         IN  [doc |-> Obj([k \in DOMAIN document \cup {s_id} |->
                            IF k = s_id THEN Str(g.id) ELSE document[k]]),
              counter |-> g.counter]

\* insert that pushes the document onto a copy of the collection: the document
\* is returned with its identity and never stored.
insert_into_copy(db, collection, document) ==
    LET d == insert_doc(db, document)
    IN  [res |-> Ok(d.doc), db |-> [db EXCEPT !.counter = d.counter]]

insert(db, collection, document) ==
    LET d == insert_doc(db, document)
        old == IF collection \in DOMAIN db.collections
               THEN db.collections[collection] ELSE << >>
    IN  [res |-> Ok(d.doc),
         db |-> [db EXCEPT
                    !.collections =
                        [c \in DOMAIN db.collections \cup {collection} |->
                            IF c = collection THEN Append(old, d.doc)
                            ELSE db.collections[c]],
                    !.counter = d.counter]]

\* An update that creates the collection it does not find.
update_or_create(db, collection, filter, upd) ==
    [res |-> Ok(<< >>),
     db |-> [db EXCEPT !.collections =
                [c \in DOMAIN db.collections \cup {collection} |->
                    IF c \in DOMAIN db.collections THEN db.collections[c] ELSE << >>]]]

update(db, collection, filter, upd) ==
    IF collection \notin DOMAIN db.collections THEN [res |-> Ok(<< >>), db |-> db]
    ELSE LET docs == db.collections[collection]
             new_docs == [i \in 1..Len(docs) |->
                            IF matches_filter(docs[i], filter)
                            THEN merge_update(docs[i], upd) ELSE docs[i]]
             hit == {i \in 1..Len(docs) : matches_filter(docs[i], filter)}
             updated_docs == SelectSeq([i \in 1..Len(docs) |-> [i |-> i, doc |-> new_docs[i]]],
                                       LAMBDA e : e.i \in hit)
         IN  [res |-> Ok([i \in 1..Len(updated_docs) |-> updated_docs[i].doc]),
              db |-> [db EXCEPT !.collections[collection] = new_docs]]

\* delete's loop with the slip the comment in the code warns of: the index is
\* advanced after a removal too.
RECURSIVE delete_loop_advancing(_, _, _, _)
delete_loop_advancing(docs, i, filter, deleted_docs) ==
    IF i > Len(docs) THEN [docs |-> docs, deleted |-> deleted_docs]
    ELSE IF matches_filter(docs[i], filter)
    THEN delete_loop_advancing(SubSeq(docs, 1, i - 1) \o SubSeq(docs, i + 1, Len(docs)),
                               i + 1, filter, Append(deleted_docs, docs[i]))
    ELSE delete_loop_advancing(docs, i + 1, filter, deleted_docs)

\* The while loop of delete: remove matching documents in place, collect them.
RECURSIVE delete_loop(_, _, _, _)
delete_loop(docs, i, filter, deleted_docs) ==
    IF i > Len(docs) THEN [docs |-> docs, deleted |-> deleted_docs]
    ELSE IF matches_filter(docs[i], filter)
    THEN delete_loop(SubSeq(docs, 1, i - 1) \o SubSeq(docs, i + 1, Len(docs)), i,
                     filter, Append(deleted_docs, docs[i]))
    ELSE delete_loop(docs, i + 1, filter, deleted_docs)

\* A delete that leaves the remaining documents in reverse order.
delete_reversing_rest(db, collection, filter) ==
    IF collection \notin DOMAIN db.collections THEN [res |-> Ok(<< >>), db |-> db]
    ELSE LET r == delete_loop(db.collections[collection], 1, filter, << >>)
         IN  [res |-> Ok(r.deleted),
              db |-> [db EXCEPT !.collections[collection] =
                         [j \in 1..Len(r.docs) |-> r.docs[Len(r.docs) + 1 - j]]]]

delete(db, collection, filter) ==
    IF collection \notin DOMAIN db.collections THEN [res |-> Ok(<< >>), db |-> db]
    ELSE LET r == delete_loop(db.collections[collection], 1, filter, << >>)
         IN  [res |-> Ok(r.deleted),
              db |-> [db EXCEPT !.collections[collection] = r.docs]]

(***************************************************************************)
(* operators::OperatorValue and operators::Operator.  A HashMap-valued     *)
(* field (filter, document, update, sort) is the sequence of its entries   *)
(* in the map's iteration order, with distinct keys.                       *)
(***************************************************************************)
Literal(v) == [op |-> "Literal", v |-> v]
Get(path) == [op |-> "Get", path |-> path]
If(condition, then, else) ==
    [op |-> "If", condition |-> condition, then |-> then, else |-> else]
Merge(objects) == [op |-> "Merge", objects |-> objects]
Exists(value) == [op |-> "Exists", value |-> value]
Now == [op |-> "Now"]
Cmp(o, left, right) == [op |-> o, left |-> left, right |-> right]
And(conditions) == [op |-> "And", conditions |-> conditions]
Or(conditions) == [op |-> "Or", conditions |-> conditions]
Not(condition) == [op |-> "Not", condition |-> condition]
Validate(data, schema, on_fail) ==
    [op |-> "Validate", data |-> data, schema |-> schema, on_fail |-> on_fail]
DbQuery(collection, filter, select, limit, skip, sort) ==
    [op |-> "DbQuery", collection |-> collection, filter |-> filter,
     select |-> select, limit |-> limit, skip |-> skip, sort |-> sort]
DbInsert(collection, document) ==
    [op |-> "DbInsert", collection |-> collection, document |-> document]
DbUpdate(collection, filter, upd) ==
    [op |-> "DbUpdate", collection |-> collection, filter |-> filter, update |-> upd]
DbDelete(collection, filter) ==
    [op |-> "DbDelete", collection |-> collection, filter |-> filter]
Return(status, headers, body) ==
    [op |-> "Return", status |-> status, headers |-> headers, body |-> body]
Add(operands) == [op |-> "Add", operands |-> operands]
Field(key, value) == [key |-> key, value |-> value]
PlainQuery(c, filter) == DbQuery(c, filter, None, None, None, None)

\* FixedTimeProvider::now: the timestamp it was built with ("t0" here).
time_now == <<116, 48>>

(***************************************************************************)
(* The jsonschema crate, for the keywords of spec 4.3.7.  A schema is      *)
(* [type, required, properties, minLength, minimum, minItems, enum]; an    *)
(* absent keyword is "" (type), << >> (required, properties), -1           *)
(* (minLength, minItems) or None (minimum, enum).                          *)
(***************************************************************************)
Schema(type, required, properties, minLength, minimum, minItems, enum) ==
    [type |-> type, required |-> required, properties |-> properties,
     minLength |-> minLength, minimum |-> minimum, minItems |-> minItems,
     enum |-> enum]
TypeSchema(type) == Schema(type, << >>, << >>, -1, None, -1, None)
ObjectSchema(required, properties) ==
    Schema("object", required, properties, -1, None, -1, None)

SimpleTypes == {"array", "boolean", "integer", "null", "number", "object", "string"}

\* validator_for fails on a schema the meta-schema rejects: here, a "type"
\* that is no simple type, at any depth.
RECURSIVE schema_compiles(_)
schema_compiles(schema) ==
    /\ schema.type \in SimpleTypes \cup {""}
    /\ \A k \in DOMAIN schema.properties : schema_compiles(schema.properties[k])

\* Exact numeric order of two numbers, whatever their representation.
num_cmp(a, b) ==
    IF f64_is_zero(a) /\ f64_is_zero(b) THEN "Equal"
    ELSE IF a.neg # b.neg THEN (IF a.neg THEN "Less" ELSE "Greater")
    ELSE IF a.neg THEN Reverse(mag_cmp(a, b))
    ELSE mag_cmp(a, b)

\* Equality of JSON Schema ("enum"): numbers are equal when numerically equal.
RECURSIVE schema_equal(_, _)
schema_equal(a, b) ==
    IF a.t # b.t THEN FALSE
    ELSE IF a.t = "num" THEN num_cmp(a, b) = "Equal"
    ELSE IF a.t = "arr"
    THEN /\ Len(a.a) = Len(b.a)
         /\ \A i \in 1..Len(a.a) : schema_equal(a.a[i], b.a[i])
    ELSE IF a.t = "obj"
    THEN /\ DOMAIN a.o = DOMAIN b.o
         /\ \A k \in DOMAIN a.o : schema_equal(a.o[k], b.o[k])
    ELSE a = b

type_matches(type, d) ==
    CASE type = "" -> TRUE
      [] type = "number" -> d.t = "num"
      [] type = "integer" -> d.t = "num" /\ d.half = 0
      [] type = "string" -> d.t = "str"
      [] type = "boolean" -> d.t = "bool"
      [] type = "null" -> d.t = "null"
      [] type = "array" -> d.t = "arr"
      [] type = "object" -> d.t = "obj"
      [] OTHER -> FALSE

SeqOfSet(S) == CHOOSE q \in [1..Cardinality(S) -> S] : {q[i] : i \in 1..Cardinality(S)} = S

RECURSIVE Flatten(_)
Flatten(qs) == IF qs = << >> THEN << >> ELSE Head(qs) \o Flatten(Tail(qs))

\* Validator::iter_errors: one violation per failed keyword (per missing key
\* for "required"), as [keyword, at] with `at` the instance path.
RECURSIVE iter_errors(_, _, _)
iter_errors(schema, d, at) ==
    LET one(keyword) == <<[keyword |-> keyword, at |-> at]>>
        e_type == IF type_matches(schema.type, d) THEN << >> ELSE one("type")
        e_enum == IF is_none(schema.enum)
                     \/ \E i \in 1..Len(schema.enum.v) : schema_equal(schema.enum.v[i], d)
                  THEN << >> ELSE one("enum")
        e_minLength == IF d.t = "str" /\ Len(d.s) < schema.minLength
                       THEN one("minLength") ELSE << >>
        e_minimum == IF d.t = "num" /\ is_some(schema.minimum)
                        /\ num_cmp(d, schema.minimum.v) = "Less"
                     THEN one("minimum") ELSE << >>
        e_minItems == IF d.t = "arr" /\ Len(d.a) < schema.minItems
                      THEN one("minItems") ELSE << >>
        e_required == IF d.t = "obj"
                      THEN SelectSeq([i \in 1..Len(schema.required) |->
                                        [keyword |-> "required",
                                         at |-> Append(at, schema.required[i])]],
                                     LAMBDA e : e.at[Len(e.at)] \notin DOMAIN d.o)
                      ELSE << >>
        keys == IF d.t = "obj"
                THEN SeqOfSet(DOMAIN schema.properties \cap DOMAIN d.o)
                ELSE << >>
        e_properties == Flatten([i \in 1..Len(keys) |->
                            iter_errors(schema.properties[keys[i]], d.o[keys[i]],
                                        Append(at, keys[i]))])
    IN  e_type \o e_enum \o e_minLength \o e_minimum \o e_minItems
            \o e_required \o e_properties

is_valid(schema, d) == iter_errors(schema, d, << >>) = << >>

(***************************************************************************)
(* executor::Executor.  An evaluation takes the Context, the expression    *)
(* and the storage, and yields [res, db]: the Result and the storage       *)
(* after it (an error keeps the writes made before it was raised).         *)
(***************************************************************************)
\* An is_truthy under which every array and every object is true.
is_truthy_containers_true(value) ==
    CASE value.t = "null" -> FALSE
      [] value.t = "bool" -> value.b
      [] value.t = "num" -> ~f64_is_zero(as_f64(value))
      [] value.t = "str" -> value.s # << >>
      [] value.t = "arr" -> TRUE
      [] value.t = "obj" -> TRUE

is_truthy(value) ==
    CASE value.t = "null" -> FALSE
      [] value.t = "bool" -> value.b
      [] value.t = "num" -> ~f64_is_zero(as_f64(value))
      [] value.t = "str" -> value.s # << >>
      [] value.t = "arr" -> value.a # << >>
      [] value.t = "obj" -> DOMAIN value.o # {}

type_name(value) ==
    CASE value.t = "null" -> "null"
      [] value.t = "bool" -> "boolean"
      [] value.t = "num" -> "number"
      [] value.t = "str" -> "string"
      [] value.t = "arr" -> "array"
      [] value.t = "obj" -> "object"

\* The closures handed to compare_values: Ordering::is_gt, is_ge, is_lt, is_le.
ordering_is(o, ordering) ==
    CASE o = "Gt" -> ordering = "Greater"
      [] o = "Gte" -> ordering # "Less"
      [] o = "Lt" -> ordering = "Less"
      [] o = "Lte" -> ordering # "Greater"

\* A compare_values that takes two values of one type as comparable (Equal).
compare_values_same_type(left, right, o) ==
    IF left.t = "num" /\ right.t = "num"
    THEN Ok(Bool(ordering_is(o, f64_partial_cmp(as_f64(left), as_f64(right)))))
    ELSE IF left.t = "str" /\ right.t = "str"
    THEN Ok(Bool(ordering_is(o, str_cmp(left.s, right.s))))
    ELSE IF left.t = right.t
    THEN Ok(Bool(ordering_is(o, "Equal")))
    ELSE Err(type_error_with_types("Cannot compare values of different types",
                                   type_name(left), type_name(right)))

compare_values(left, right, o) ==
    IF left.t = "num" /\ right.t = "num"
    THEN Ok(Bool(ordering_is(o, f64_partial_cmp(as_f64(left), as_f64(right)))))
    ELSE IF left.t = "str" /\ right.t = "str"
    THEN Ok(Bool(ordering_is(o, str_cmp(left.s, right.s))))
    ELSE Err(type_error_with_types("Cannot compare values of different types",
                                   type_name(left), type_name(right)))

eval_get(ctx, path) ==
    LET found == get_path(ctx, path)
    IN  IF is_some(found) THEN Ok(found) ELSE Err(path_not_found(path))

\* A merge that keeps the entry already present.
merge_into_keep_first(result, map) ==
    [k \in DOMAIN result \cup DOMAIN map |-> IF k \in DOMAIN result THEN result[k] ELSE map[k]]

\* serde_json::Map::insert of every entry of `map` into `result`.
merge_into(result, map) ==
    [k \in DOMAIN result \cup DOMAIN map |-> IF k \in DOMAIN map THEN map[k] ELSE result[k]]

called(db, name) == [db EXCEPT !.calls = Append(@, name)]

RECURSIVE eval(_, _, _)
RECURSIVE eval_operator(_, _, _)

\* The loop of eval_merge, from the objects still to merge.
RECURSIVE eval_merge_from(_, _, _, _)
eval_merge_from(ctx, objects, result, db) ==
    IF objects = << >> THEN [res |-> Ok(Obj(result)), db |-> db]
    ELSE LET r == eval(ctx, Head(objects), db)
         IN  IF ~r.res.ok THEN r
             ELSE IF r.res.val.t = "obj"
             THEN eval_merge_from(ctx, Tail(objects), merge_into(result, r.res.val.o), r.db)
             ELSE [res |-> Err(type_error_with_types("Can only merge objects", "object",
                                                     type_name(r.res.val))),
                   db |-> r.db]

eval_merge(ctx, objects, db) == eval_merge_from(ctx, objects, << >>, db)

\* An And that evaluates every condition before it decides.
RECURSIVE eval_and_eager(_, _, _)
eval_and_eager(ctx, conditions, db) ==
    IF conditions = << >> THEN [res |-> Ok(Bool(TRUE)), db |-> db]
    ELSE LET r == eval(ctx, Head(conditions), db)
         IN  IF ~r.res.ok THEN r
             ELSE LET rest == eval_and_eager(ctx, Tail(conditions), r.db)
                  IN  IF ~rest.res.ok THEN rest
                      ELSE [res |-> Ok(Bool(is_truthy(r.res.val) /\ rest.res.val.b)),
                            db |-> rest.db]

\* The loop of the And arm.
RECURSIVE eval_and(_, _, _)
eval_and(ctx, conditions, db) ==
    IF conditions = << >> THEN [res |-> Ok(Bool(TRUE)), db |-> db]
    ELSE LET r == eval(ctx, Head(conditions), db)
         IN  IF ~r.res.ok THEN r
             ELSE IF ~is_truthy(r.res.val) THEN [res |-> Ok(Bool(FALSE)), db |-> r.db]
             ELSE eval_and(ctx, Tail(conditions), r.db)

\* An Or that returns the first truthy operand itself, and the last operand
\* when none is truthy.
RECURSIVE eval_or_operand(_, _, _)
eval_or_operand(ctx, conditions, db) ==
    IF conditions = << >> THEN [res |-> Ok(Bool(FALSE)), db |-> db]
    ELSE LET r == eval(ctx, Head(conditions), db)
         IN  IF ~r.res.ok THEN r
             ELSE IF is_truthy(r.res.val) \/ Len(conditions) = 1 THEN r
             ELSE eval_or_operand(ctx, Tail(conditions), r.db)

\* The loop of the Or arm.
RECURSIVE eval_or(_, _, _)
eval_or(ctx, conditions, db) ==
    IF conditions = << >> THEN [res |-> Ok(Bool(FALSE)), db |-> db]
    ELSE LET r == eval(ctx, Head(conditions), db)
         IN  IF ~r.res.ok THEN r
             ELSE IF is_truthy(r.res.val) THEN [res |-> Ok(Bool(TRUE)), db |-> r.db]
             ELSE eval_or(ctx, Tail(conditions), r.db)

\* The loops that evaluate a HashMap of OperatorValues into a HashMap of
\* Values, entry by entry in iteration order.
RECURSIVE eval_fields(_, _, _, _)
eval_fields(ctx, fields, evaluated, db) ==
    IF fields = << >> THEN [res |-> Ok(evaluated), db |-> db]
    ELSE LET r == eval(ctx, Head(fields).value, db)
         IN  IF ~r.res.ok THEN r
             ELSE eval_fields(ctx, Tail(fields),
                              merge_into(evaluated, [k \in {Head(fields).key} |-> r.res.val]),
                              r.db)

\* `left` then `right`, as every comparison arm evaluates them.
eval_left_right(ctx, left, right, db) ==
    LET l == eval(ctx, left, db)
    IN  IF ~l.res.ok THEN l
        ELSE LET r == eval(ctx, right, l.db)
             IN  IF ~r.res.ok THEN r
                 ELSE [res |-> Ok([left |-> l.res.val, right |-> r.res.val]), db |-> r.db]

\* An If arm that evaluates both branches before it selects one.
eval_if_both_branches(ctx, op, db) ==
    LET condition == eval(ctx, op.condition, db)
    IN  IF ~condition.res.ok THEN condition
        ELSE LET then == eval(ctx, op.then, condition.db)
             IN  IF ~then.res.ok THEN then
                 ELSE IF is_none(op.else)
                 THEN [res |-> IF is_truthy(condition.res.val) THEN then.res ELSE Ok(Null),
                       db |-> then.db]
                 ELSE LET else == eval(ctx, op.else.v, then.db)
                      IN  IF ~else.res.ok THEN else
                          ELSE [res |-> IF is_truthy(condition.res.val) THEN then.res
                                        ELSE else.res,
                                db |-> else.db]

eval_if(ctx, op, db) ==
    LET condition == eval(ctx, op.condition, db)
    IN  IF ~condition.res.ok THEN condition
        ELSE IF is_truthy(condition.res.val) THEN eval(ctx, op.then, condition.db)
        ELSE IF is_some(op.else) THEN eval(ctx, op.else.v, condition.db)
        ELSE [res |-> Ok(Null), db |-> condition.db]

\* A Validate arm that raises ValidationError without looking at on_fail.
eval_validate_without_on_fail(ctx, op, db) ==
    LET data == eval(ctx, op.data, db)
    IN  IF ~data.res.ok THEN data
        ELSE IF ~schema_compiles(op.schema)
        THEN [res |-> Err(custom("Failed to compile schema")), db |-> data.db]
        ELSE IF is_valid(op.schema, data.res.val) THEN data
        ELSE [res |-> Err(validation_error("Validation failed",
                                           iter_errors(op.schema, data.res.val, << >>))),
              db |-> data.db]

\* A Validate arm that evaluates on_fail before it validates.
eval_validate_on_fail_first(ctx, op, db) ==
    LET data == eval(ctx, op.data, db)
    IN  IF ~data.res.ok THEN data
        ELSE IF ~schema_compiles(op.schema)
        THEN [res |-> Err(custom("Failed to compile schema")), db |-> data.db]
        ELSE IF is_some(op.on_fail)
        THEN LET fallback == eval(ctx, op.on_fail.v, data.db)
             IN  IF ~fallback.res.ok THEN fallback
                 ELSE IF is_valid(op.schema, data.res.val)
                 THEN [res |-> data.res, db |-> fallback.db]
                 ELSE fallback
        ELSE IF is_valid(op.schema, data.res.val) THEN data
        ELSE [res |-> Err(validation_error("Validation failed",
                                           iter_errors(op.schema, data.res.val, << >>))),
              db |-> data.db]

\* A Validate arm whose onFail also stands in for a schema that does not
\* compile.
eval_validate_on_fail_any_failure(ctx, op, db) ==
    LET data == eval(ctx, op.data, db)
    IN  IF ~data.res.ok THEN data
        ELSE IF ~schema_compiles(op.schema) /\ is_none(op.on_fail)
        THEN [res |-> Err(custom("Failed to compile schema")), db |-> data.db]
        ELSE IF schema_compiles(op.schema) /\ is_valid(op.schema, data.res.val) THEN data
        ELSE IF is_some(op.on_fail) THEN eval(ctx, op.on_fail.v, data.db)
        ELSE [res |-> Err(validation_error("Validation failed",
                                           iter_errors(op.schema, data.res.val, << >>))),
              db |-> data.db]

eval_validate(ctx, op, db) ==
    LET data == eval(ctx, op.data, db)
    IN  IF ~data.res.ok THEN data
        ELSE IF ~schema_compiles(op.schema)
        THEN [res |-> Err(custom("Failed to compile schema")), db |-> data.db]
        ELSE IF is_valid(op.schema, data.res.val) THEN data
        ELSE IF is_some(op.on_fail) THEN eval(ctx, op.on_fail.v, data.db)
        ELSE [res |-> Err(validation_error("Validation failed",
                                           iter_errors(op.schema, data.res.val, << >>))),
              db |-> data.db]

\* Step 2 and 3 of the DbQuery arm: call the provider, wrap the documents.
dbquery_call(op, filter, db) ==
    [res |-> Ok(Arr(query(db, op.collection, filter, op.select, op.limit, op.skip,
                          op.sort).val)),
     db |-> called(db, "query")]

dbquery_filtered(op, filter) ==
    IF ~filter.res.ok THEN filter
    ELSE dbquery_call(op, Some(filter.res.val), filter.db)

eval_dbquery(ctx, op, db) ==
    IF is_some(op.filter)
    THEN dbquery_filtered(op, eval_fields(ctx, op.filter.v, << >>, db))
    ELSE dbquery_call(op, None, db)

\* A DbInsert arm that reaches for the provider before it evaluates the
\* document.
eval_dbinsert_call_first(ctx, op, db) ==
    LET document == eval_fields(ctx, op.document, << >>, called(db, "insert"))
    IN  IF ~document.res.ok THEN document
        ELSE insert(document.db, op.collection, document.res.val)

eval_dbinsert(ctx, op, db) ==
    LET document == eval_fields(ctx, op.document, << >>, db)
    IN  IF ~document.res.ok THEN document
        ELSE insert(called(document.db, "insert"), op.collection, document.res.val)

eval_dbupdate(ctx, op, db) ==
    LET filter == eval_fields(ctx, op.filter, << >>, db)
    IN  IF ~filter.res.ok THEN filter
        ELSE LET upd == eval_fields(ctx, op.update, << >>, filter.db)
             IN  IF ~upd.res.ok THEN upd
                 ELSE LET updated == update(called(upd.db, "update"), op.collection,
                                            filter.res.val, upd.res.val)
                      IN  [res |-> Ok(Arr(updated.res.val)), db |-> updated.db]

eval_dbdelete(ctx, op, db) ==
    LET filter == eval_fields(ctx, op.filter, << >>, db)
    IN  IF ~filter.res.ok THEN filter
        ELSE LET deleted == delete(called(filter.db, "delete"), op.collection,
                                   filter.res.val)
             IN  [res |-> Ok(Arr(deleted.res.val)), db |-> deleted.db]

eval_compare(ctx, op, db) ==
    LET lr == eval_left_right(ctx, op.left, op.right, db)
    IN  IF ~lr.res.ok THEN lr
        ELSE [res |-> IF op.op = "Eq"
                      THEN Ok(Bool(value_eq(lr.res.val.left, lr.res.val.right)))
                      ELSE IF op.op = "Ne"
                      THEN Ok(Bool(~value_eq(lr.res.val.left, lr.res.val.right)))
                      ELSE compare_values(lr.res.val.left, lr.res.val.right, op.op),
              db |-> lr.db]

\* An Exists arm that answers false when its argument raises.
eval_exists_absence_tolerant(ctx, op, db) ==
    LET value == eval(ctx, op.value, db)
    IN  IF ~value.res.ok THEN [res |-> Ok(Bool(FALSE)), db |-> value.db]
        ELSE [res |-> Ok(Bool(~is_null(value.res.val))), db |-> value.db]

eval_exists(ctx, op, db) ==
    LET value == eval(ctx, op.value, db)
    IN  IF ~value.res.ok THEN value
        ELSE [res |-> Ok(Bool(~is_null(value.res.val))), db |-> value.db]

eval_not(ctx, op, db) ==
    LET value == eval(ctx, op.condition, db)
    IN  IF ~value.res.ok THEN value
        ELSE [res |-> Ok(Bool(~is_truthy(value.res.val))), db |-> value.db]

\* The arm of every tag without an implementation: Switch, Map, Filter, Reduce,
\* RenderString, Return, Add, Subtract, Multiply, Divide.
UnimplementedTags ==
    {"Switch", "Map", "Filter", "Reduce", "RenderString", "Return",
     "Add", "Subtract", "Multiply", "Divide"}

\* A fallback arm that takes $return as spec 4.3.8 describes it.
not_implemented_but_return(op, db) ==
    IF op.op = "Return"
    THEN [res |-> Err([kind |-> "EarlyReturn", status |-> op.status]), db |-> db]
    ELSE [res |-> Err(custom("Operator not yet implemented")), db |-> db]

not_implemented(op, db) ==
    [res |-> Err(custom("Operator not yet implemented")), db |-> db]

eval_operator(ctx, op, db) ==
    CASE op.op = "Get" -> [res |-> eval_get(ctx, op.path), db |-> db]
      [] op.op = "If" -> eval_if(ctx, op, db)
      [] op.op = "Merge" -> eval_merge(ctx, op.objects, db)
      [] op.op = "Exists" -> eval_exists(ctx, op, db)
      [] op.op = "Now" -> [res |-> Ok(Str(time_now)), db |-> db]
      [] op.op \in {"Eq", "Ne", "Gt", "Gte", "Lt", "Lte"} -> eval_compare(ctx, op, db)
      [] op.op = "And" -> eval_and(ctx, op.conditions, db)
      [] op.op = "Or" -> eval_or(ctx, op.conditions, db)
      [] op.op = "Not" -> eval_not(ctx, op, db)
      [] op.op = "Validate" -> eval_validate(ctx, op, db)
      [] op.op = "DbQuery" -> eval_dbquery(ctx, op, db)
      [] op.op = "DbInsert" -> eval_dbinsert(ctx, op, db)
      [] op.op = "DbUpdate" -> eval_dbupdate(ctx, op, db)
      [] op.op = "DbDelete" -> eval_dbdelete(ctx, op, db)
      [] op.op \in UnimplementedTags -> not_implemented(op, db)

\* An evaluation that reads a literal object shaped like {"$get": path} as the
\* Get operator.
eval_literal_as_operator(ctx, value, db) ==
    IF value.op = "Literal"
    THEN IF value.v.t = "obj" /\ DOMAIN value.v.o = {s_get}
         THEN [res |-> eval_get(ctx, value.v.o[s_get].s), db |-> db]
         ELSE [res |-> Ok(value.v), db |-> db]
    ELSE eval_operator(ctx, value, db)

eval(ctx, value, db) ==
    IF value.op = "Literal" THEN [res |-> Ok(value.v), db |-> db]
    ELSE eval_operator(ctx, value, db)

(***************************************************************************)
(* The state machine.  DB is the storage as the evaluator sees it at the   *)
(* start of an evaluation; NoEval is `last` before any evaluation.         *)
(***************************************************************************)
DB == [collections |-> collections, counter |-> counter, calls |-> << >>]

NoExpr == [op |-> "None"]
NoEval == [n |-> 0, expr |-> NoExpr, ctx |-> Context_new,
           before |-> [collections |-> << >>, counter |-> 0, calls |-> << >>],
           res |-> None, calls |-> << >>]
NoInput == [ctx |-> Context_new, expr |-> NoExpr]
Pending == [kind |-> "Pending"]
NoRun == [steps |-> << >>, response |-> NoExpr, pc |-> 0, ctx |-> Context_new,
          results |-> << >>, outcome |-> Pending]

\* Executor::eval on `expr` in `ctx` against the shared storage: one step.
Evaluate(ctx, expr) ==
    LET r == eval(ctx, expr, DB)
    IN  /\ collections' = r.db.collections
        /\ counter' = r.db.counter
        /\ last' = [n |-> last.n + 1, expr |-> expr, ctx |-> ctx,
                    before |-> DB, res |-> r.res, calls |-> r.db.calls]

(***************************************************************************)
(* Spec: a session of storage operators on one MockDatabase, each          *)
(* evaluated by the Executor in the Context {x: "a"}.                      *)
(***************************************************************************)
StoreCtx == with_var(Context_new, s_x, Str(s_a))
id_1 == s_id_prefix \o <<49>>

f_all == << >>
f_id_a == <<Field(s_id, Literal(Str(s_a)))>>
f_title_x == <<Field(s_title, Get(s_x))>>
f_title_null == <<Field(s_title, Literal(Null))>>
u_title_b == <<Field(s_title, Literal(Str(s_b)))>>
u_id_a == <<Field(s_id, Literal(Str(s_a)))>>
sort_title(order) == Some(<<[field |-> s_title, order |-> order]>>)

InsertExprs ==
    { DbInsert("posts", << >>),
      DbInsert("posts", <<Field(s_title, Literal(Str(s_a)))>>),
      DbInsert("posts", <<Field(s_id, Literal(Str(s_a)))>>),
      DbInsert("posts", <<Field(s_id, Literal(Str(id_1))),
                          Field(s_title, Literal(Str(s_b)))>>),
      DbInsert("users", << >>) }

QueryExprs ==
    { DbQuery("posts", None, None, None, None, None),
      DbQuery("posts", Some(f_id_a), None, None, None, None),
      DbQuery("posts", Some(f_title_null), Some(<<s_title>>), None, None, None),
      DbQuery("posts", None, None, None, None, sort_title("asc")),
      DbQuery("posts", None, None, Some(1), Some(1), sort_title("desc")),
      DbQuery("posts", None, None, Some(0), None, None),
      DbQuery("posts", None, None, None, Some(5), None),
      DbQuery("posts", Some(f_title_x), Some(<<s_title>>), Some(1), Some(1), sort_title("asc")),
      DbQuery("users", None, None, None, None, None) }

UpdateExprs ==
    { DbUpdate("posts", f_all, u_title_b),
      DbUpdate("posts", f_id_a, u_title_b),
      DbUpdate("posts", f_title_null, u_id_a),
      DbUpdate("posts", f_title_x, u_id_a),
      DbUpdate("users", f_all, u_title_b) }

DeleteExprs ==
    { DbDelete("posts", f_all),
      DbDelete("posts", f_id_a),
      DbDelete("posts", f_title_x),
      DbDelete("posts", f_title_null),
      DbDelete("users", f_id_a) }

\* Documents handed to MockDatabase::with_collection("posts", ..) when the
\* database is built: one without _id, and a value that is no object.
SeedDocuments ==
    { <<Obj1(s_title, Str(s_a)), Obj2(s_id, Str(s_a), s_title, Str(s_a))>>,
      <<Str(s_a), Obj1(s_id, Str(s_b))>> }

Init ==
    /\ collections = << >>
    /\ counter = 0
    /\ input = NoInput
    /\ last = NoEval
    /\ run = NoRun

WithCollection ==
    \E documents \in SeedDocuments :
        /\ last = NoEval
        /\ collections = << >>
        /\ collections' = [c \in {"posts"} |-> documents]
        /\ UNCHANGED <<counter, input, last, run>>

DbInsertOp ==
    \E e \in InsertExprs :
        /\ last.n < MaxEvals
        /\ Evaluate(StoreCtx, e)
        /\ UNCHANGED <<input, run>>

DbQueryOp ==
    \E e \in QueryExprs :
        /\ last.n < MaxEvals
        /\ Evaluate(StoreCtx, e)
        /\ UNCHANGED <<input, run>>

DbUpdateOp ==
    \E e \in UpdateExprs :
        /\ last.n < MaxEvals
        /\ Evaluate(StoreCtx, e)
        /\ UNCHANGED <<input, run>>

DbDeleteOp ==
    \E e \in DeleteExprs :
        /\ last.n < MaxEvals
        /\ Evaluate(StoreCtx, e)
        /\ UNCHANGED <<input, run>>

Next ==
    \/ WithCollection
    \/ DbInsertOp
    \/ DbQueryOp
    \/ DbUpdateOp
    \/ DbDeleteOp

Spec == Init /\ [][Next]_vars

(***************************************************************************)
(* SpecPipe: the pipeline runner of spec 4.2 on one request.  The crate    *)
(* declares PipelineStep and config::Response but has no runner; the       *)
(* runner below follows the spec, and evaluates with the Executor above.   *)
(* run.results is the history of the values of the steps completed.        *)
(***************************************************************************)
Step(name, value) == [name |-> name, value |-> value]
Conditional(expr) == [op |-> "Conditional", expr |-> expr]
Static(status, headers, body) ==
    [op |-> "Static", status |-> status, headers |-> headers, body |-> body]

\* The result of a failed evaluation, as the caller receives it: EarlyReturn is
\* told apart from every failure by its tag.
Raised(e) == [kind |-> IF e.kind = "EarlyReturn" THEN "EarlyReturn" ELSE "Error", val |-> e]

\* "evaluate s_i.value against C; on an error halt and propagate; otherwise
\* bind the value under s_i.name if present, else discard".
step_outcome(r) == IF r.res.ok THEN Pending ELSE Raised(r.res.val)
step_bind(ctx, step, r) ==
    IF r.res.ok /\ is_some(step.name) THEN with_var(ctx, step.name.v, r.res.val) ELSE ctx

RunStep ==
    /\ run.outcome = Pending
    /\ run.pc \in 1..Len(run.steps)
    /\ Evaluate(run.ctx, run.steps[run.pc].value)
    /\ LET r == eval(run.ctx, run.steps[run.pc].value, DB)
       IN  run' = [run EXCEPT
                     !.outcome = step_outcome(r),
                     !.ctx = step_bind(run.ctx, run.steps[run.pc], r),
                     !.results = IF r.res.ok THEN Append(@, r.res.val) ELSE @,
                     !.pc = IF r.res.ok THEN @ + 1 ELSE @]
    /\ UNCHANGED input

\* "After all steps, evaluate R against the final C and return its value, or
\* propagate an error": the bare-expression form of config::Response.
RunConditional ==
    /\ run.outcome = Pending
    /\ run.pc = Len(run.steps) + 1
    /\ run.response.op = "Conditional"
    /\ Evaluate(run.ctx, run.response.expr)
    /\ LET r == eval(run.ctx, run.response.expr, DB)
       IN  run' = [run EXCEPT
                     !.outcome = IF r.res.ok THEN [kind |-> "Value", val |-> r.res.val]
                                 ELSE Raised(r.res.val)]
    /\ UNCHANGED input

\* The structured form: "evaluating body and every header value, yielding the
\* literal envelope".  Body and headers are evaluated as one object of fields.
static_envelope(response, b, h) ==
    IF ~h.res.ok THEN h
    ELSE [res |-> Ok([status |-> response.status, headers |-> h.res.val, body |-> b.res.val]),
          db |-> h.db]

static_headers(ctx, response, b) ==
    IF ~b.res.ok THEN b
    ELSE static_envelope(response, b, eval_fields(ctx, response.headers, << >>, b.db))

static_eval(ctx, response, db) == static_headers(ctx, response, eval(ctx, response.body, db))

static_done(r) ==
    /\ collections' = r.db.collections
    /\ counter' = r.db.counter
    /\ last' = [n |-> last.n + 1, expr |-> run.response, ctx |-> run.ctx,
                before |-> DB, res |-> r.res, calls |-> r.db.calls]
    /\ run' = [run EXCEPT
                 !.outcome = IF r.res.ok THEN [kind |-> "Envelope", val |-> r.res.val]
                             ELSE Raised(r.res.val)]

RunStatic ==
    /\ run.outcome = Pending
    /\ run.pc = Len(run.steps) + 1
    /\ run.response.op = "Static"
    /\ static_done(static_eval(run.ctx, run.response, DB))
    /\ UNCHANGED input

SeqsUpTo(S, n) == UNION {[1..k -> S] : k \in 0..n}

doc_T == <<Field(s_title, Literal(Str(s_T)))>>
StepPool ==
    { Step(Some(s_ins), DbInsert("posts", doc_T)),
      Step(Some(s_all), PlainQuery("posts", None)),
      Step(None, Return(404, << >>, Literal(Obj1(s_error, Str(s_nf))))),
      Step(Some(s_all), Literal(Str(s_a))),
      Step(Some(s_x), Get(s_ins)),
      Step(None, DbInsert("posts", << >>)) }

Responses ==
    { Conditional(Get(s_all)),
      Conditional(Literal(Null)),
      Static(200, <<Field(s_x, Literal(Str(s_a)))>>, Get(s_ins)) }

InitPipe ==
    /\ collections = << >>
    /\ counter = 0
    /\ input = NoInput
    /\ last = NoEval
    /\ run \in {[steps |-> s, response |-> r, pc |-> 1, ctx |-> Context_new,
                 results |-> << >>, outcome |-> Pending] :
                    s \in SeqsUpTo(StepPool, MaxSteps), r \in Responses}

NextPipe ==
    \/ RunStep
    \/ RunConditional
    \/ RunStatic

SpecPipe == InitPipe /\ [][NextPipe]_vars

(***************************************************************************)
(* SpecEval: one call of Executor::eval on an expression and a Context     *)
(* drawn from the pools below, against a MockDatabase that is empty or     *)
(* holds one document.                                                     *)
(***************************************************************************)
dot == <<46>>
EvalCtx ==
    [k \in {s_x, s_user, s_flag, s_items} |->
        CASE k = s_x -> Str(s_a)
          [] k = s_user -> Obj2(s_a, Arr(<<Str(s_x), Obj1(s_b, Null)>>), s_n, PosInt(5))
          [] k = s_flag -> Bool(TRUE)
          [] k = s_items -> Arr(<<PosInt(1), Arr(<<Str(s_b)>>)>>)]
\* A Context in which a variable name and an object key are the empty string.
EvalCtxEmptyNames ==
    [k \in {s_empty, s_user} |->
        IF k = s_empty THEN Obj1(s_empty, Str(s_b))
        ELSE Obj2(s_empty, PosInt(1), s_a, Arr(<<Str(s_x)>>))]
EvalCtxs == {Context_new, EvalCtx, EvalCtxEmptyNames}
EvalStores == {<< >>, [c \in {"posts"} |-> <<Obj1(s_id, Str(s_a))>>]}

CondAtoms ==
    { Literal(Bool(TRUE)), Literal(Bool(FALSE)), Literal(Null),
      Get(s_missing), Get(s_x), DbInsert("posts", << >>) }
LogicalExprs ==
    {And(c) : c \in SeqsUpTo(CondAtoms, MaxList)} \cup {Or(c) : c \in SeqsUpTo(CondAtoms, MaxList)}

CmpOps == {"Eq", "Ne", "Gt", "Gte", "Lt", "Lte"}
NumPool ==
    { PosInt(1), Float(FALSE, 1, 0), PosInt(2), NegInt(1), Float(FALSE, 1, 1),
      PosInt(0), Float(TRUE, 0, 0), BigInt(MantHi, 0), BigInt(MantHi, 1) }
StrPool == {Str(s_empty), Str(s_a), Str(s_ab), Str(s_b)}
ComparePairs ==
    (NumPool \X NumPool) \cup (StrPool \X StrPool)
        \cup {<<PosInt(1), Str(s_a)>>, <<Null, Null>>, <<Bool(TRUE), PosInt(1)>>,
              <<Bool(TRUE), Bool(FALSE)>>, <<Arr(<<PosInt(1)>>), Arr(<<PosInt(2)>>)>>,
              <<EmptyObj, EmptyObj>>, <<Str(s_a), Null>>}
\* Operands that raise (two different paths, a TypeError), write, or return.
RaisingOperands ==
    { Get(s_missing), Get(s_missing \o dot \o s_a),
      Cmp("Gt", Literal(PosInt(1)), Literal(Str(s_a))),
      DbInsert("posts", << >>), Literal(PosInt(1)), Get(s_x) }
CompareExprs ==
    {Cmp(o, Literal(p[1]), Literal(p[2])) : o \in CmpOps, p \in ComparePairs}
        \cup {Cmp(o, l, r) : o \in CmpOps, l \in RaisingOperands, r \in RaisingOperands}

title_schema ==
    ObjectSchema(<<s_title>>,
                 [k \in {s_title} |-> Schema("string", << >>, << >>, 1, None, -1, None)])
ValidateData ==
    { Literal(PosInt(5)), Literal(Str(s_a)), Literal(Obj1(s_title, Str(s_a))),
      Literal(Obj1(s_title, Str(s_empty))), Literal(EmptyObj), Get(s_x), Get(s_missing),
      DbInsert("posts", << >>) }
ValidateSchemas ==
    { TypeSchema("string"), TypeSchema("number"), TypeSchema("strng"), title_schema,
      Schema("", << >>, << >>, -1, Some(PosInt(6)), -1, None),
      Schema("", << >>, << >>, -1, None, -1, Some(<<Str(s_a), Float(FALSE, 5, 0)>>)) }
ValidateOnFail ==
    { None, Some(Literal(PosInt(5))), Some(Literal(Str(s_nf))), Some(Get(s_missing)),
      Some(Get(s_x)), Some(DbInsert("users", << >>)) }
ValidateExprs ==
    {Validate(d, s, f) : d \in ValidateData, s \in ValidateSchemas, f \in ValidateOnFail}

ObjAtoms ==
    { Literal(EmptyObj), Literal(Obj1(s_a, PosInt(1))),
      Literal(Obj2(s_a, PosInt(2), s_b, Obj1(s_x, Null))),
      Literal(Obj1(s_b, Obj1(s_n, PosInt(1)))), Get(s_user),
      Literal(PosInt(1)), Get(s_missing) }
MergeExprs == {Merge(o) : o \in SeqsUpTo(ObjAtoms, MaxList)}

PathPool ==
    { s_empty, s_x, s_missing, s_user, s_flag, s_items,
      s_user \o dot \o s_a, s_user \o dot \o s_n, s_user \o dot \o s_missing,
      s_user \o dot \o s_a \o dot \o <<48>>,
      s_user \o dot \o s_a \o dot \o <<49>>,
      s_user \o dot \o s_a \o dot \o <<50>>,
      s_user \o dot \o s_a \o dot \o <<48, 49>>,
      s_user \o dot \o s_a \o dot \o <<45, 49>>,
      s_user \o dot \o s_a \o dot \o s_x,
      s_user \o dot \o s_a \o dot \o <<49>> \o dot \o s_b,
      s_user \o dot \o s_a \o dot \o <<49>> \o dot \o s_b \o dot \o s_x,
      s_user \o dot \o s_a \o dot \o <<48>> \o dot \o <<48>>,
      s_user \o dot \o s_n \o dot \o <<48>>,
      s_flag \o dot \o s_a,
      s_items \o dot \o <<48>>, s_items \o dot \o <<49>> \o dot \o <<48>>,
      s_items \o dot \o <<43, 49>>,
      dot, dot \o s_x, s_x \o dot, s_user \o dot, s_user \o dot \o dot \o s_a,
      s_user \o dot \o s_a \o dot, s_items \o dot \o s_a, s_x \o dot \o s_a }
GetExprs == {Get(p) : p \in PathPool}

ExistsArgs ==
    { Literal(Null), Literal(Bool(FALSE)), Literal(PosInt(0)), Literal(Str(s_empty)),
      Literal(Arr(<< >>)), Literal(EmptyObj), Literal(Str(s_a)), Get(s_x), Get(s_missing),
      Get(s_user \o dot \o s_a \o dot \o <<49>> \o dot \o s_b),
      DbInsert("posts", << >>) }
ExistsExprs == {Exists(e) : e \in ExistsArgs}

IfConditions ==
    { Literal(Bool(TRUE)), Literal(Bool(FALSE)), Literal(Str(s_empty)), Literal(Str(s_a)),
      Get(s_missing), Get(s_x) }
IfThens == {Literal(Str(s_a)), Get(s_missing), DbInsert("posts", << >>)}
IfElses ==
    {None, Some(Literal(Str(s_b))), Some(Get(s_missing)), Some(DbInsert("users", << >>))}
IfExprs == {If(c, th, el) : c \in IfConditions, th \in IfThens, el \in IfElses}

TruthValues ==
    { Null, Bool(TRUE), Bool(FALSE), PosInt(0), Float(FALSE, 0, 0), Float(TRUE, 0, 0),
      PosInt(1), NegInt(1), Float(FALSE, 0, 1), Float(TRUE, 0, 1), BigInt(MantHi, 1),
      Str(s_empty), Str(s_a), Arr(<< >>), Arr(<<Null>>), Arr(<<Bool(FALSE)>>),
      EmptyObj, Obj1(s_a, Null), Obj1(s_empty, Bool(FALSE)) }
NotExprs ==
    {Not(Literal(v)) : v \in TruthValues}
        \cup {Not(Get(s_missing)), Not(Get(s_x)), Not(DbInsert("posts", << >>))}
TruthExprs ==
    {If(Literal(v), Literal(Str(s_a)), Some(Literal(Str(s_b)))) : v \in TruthValues}
        \cup {And(<<Literal(v)>>) : v \in TruthValues}
        \cup {Or(<<Literal(v)>>) : v \in TruthValues}

\* Literals, among them objects shaped like an operator.
LiteralExprs ==
    {Literal(v) : v \in TruthValues}
        \cup {Literal(Obj1(s_get, Str(s_x))), Literal(Obj1(s_get, Str(s_missing)))}

\* One expression of every tag the evaluator does not implement, with
\* sub-expressions that would raise or insert if they were evaluated.
UnimplementedSubs == {Get(s_missing), DbInsert("posts", << >>), Literal(PosInt(1))}
UnimplementedExprs ==
    UNION { { [op |-> "Switch", on |-> e, cases |-> << >>, default |-> Some(e)],
              [op |-> "Map", over |-> e, do |-> e],
              [op |-> "Filter", over |-> e, where |-> e],
              [op |-> "Reduce", over |-> e, with |-> e, initial |-> Null],
              [op |-> "RenderString", template |-> s_a],
              Return(404, << >>, e),
              Add(<<e, e>>),
              [op |-> "Subtract", left |-> e, right |-> e],
              [op |-> "Multiply", operands |-> <<e>>],
              [op |-> "Divide", left |-> e, right |-> e] } : e \in UnimplementedSubs }

\* Storage operators whose fields evaluate, raise, or write and then raise.
StorageFields ==
    { <<Field(s_title, Get(s_x))>>,
      <<Field(s_title, Get(s_missing))>>,
      <<Field(s_a, DbInsert("posts", << >>)), Field(s_title, Get(s_missing))>>,
      <<Field(s_title, Get(s_missing)), Field(s_a, DbInsert("posts", << >>))>>,
      <<Field(s_a, Get(s_flag)), Field(s_title, Get(s_missing \o dot \o s_a))>> }
StorageExprs ==
    {DbInsert("posts", f) : f \in StorageFields}
        \cup {PlainQuery("posts", Some(f)) : f \in StorageFields}
        \cup {DbDelete("posts", f) : f \in StorageFields}
        \cup {DbUpdate("posts", f, g) : f \in StorageFields, g \in StorageFields}

EvalExprs ==
    StorageExprs \cup UnimplementedExprs \cup LiteralExprs \cup LogicalExprs \cup CompareExprs \cup ValidateExprs \cup MergeExprs \cup GetExprs
        \cup ExistsExprs \cup IfExprs \cup NotExprs \cup TruthExprs

InitEval ==
    /\ collections \in EvalStores
    /\ counter = 0
    /\ input \in {[ctx |-> c, expr |-> e] : c \in EvalCtxs, e \in EvalExprs}
    /\ last = NoEval
    /\ run = NoRun

\* Executor::eval on an expression of the And and Or arms.
EvalLogical ==
    /\ last.n = 0
    /\ input.expr.op \in {"And", "Or"}
    /\ Evaluate(input.ctx, input.expr)
    /\ UNCHANGED <<input, run>>

\* Executor::eval on an expression of the Eq, Ne, Gt, Gte, Lt and Lte arms.
EvalComparison ==
    /\ last.n = 0
    /\ input.expr.op \in CmpOps
    /\ Evaluate(input.ctx, input.expr)
    /\ UNCHANGED <<input, run>>

\* Executor::eval on an expression of the Validate arm.
EvalValidate ==
    /\ last.n = 0
    /\ input.expr.op \in {"Validate"}
    /\ Evaluate(input.ctx, input.expr)
    /\ UNCHANGED <<input, run>>

\* Executor::eval on an expression of the Merge arm.
EvalMerge ==
    /\ last.n = 0
    /\ input.expr.op \in {"Merge"}
    /\ Evaluate(input.ctx, input.expr)
    /\ UNCHANGED <<input, run>>

\* Executor::eval on an expression of the Get arm.
EvalGet ==
    /\ last.n = 0
    /\ input.expr.op \in {"Get"}
    /\ Evaluate(input.ctx, input.expr)
    /\ UNCHANGED <<input, run>>

\* Executor::eval on an expression of the Exists arm.
EvalExists ==
    /\ last.n = 0
    /\ input.expr.op \in {"Exists"}
    /\ Evaluate(input.ctx, input.expr)
    /\ UNCHANGED <<input, run>>

\* Executor::eval on an expression of the If arm.
EvalIf ==
    /\ last.n = 0
    /\ input.expr.op \in {"If"}
    /\ Evaluate(input.ctx, input.expr)
    /\ UNCHANGED <<input, run>>

\* Executor::eval on an expression of the Not arm.
EvalNot ==
    /\ last.n = 0
    /\ input.expr.op \in {"Not"}
    /\ Evaluate(input.ctx, input.expr)
    /\ UNCHANGED <<input, run>>

\* Executor::eval on a literal.
EvalLiteral ==
    /\ last.n = 0
    /\ input.expr.op \in {"Literal"}
    /\ Evaluate(input.ctx, input.expr)
    /\ UNCHANGED <<input, run>>

\* Executor::eval on an expression of a tag without an arm.
EvalUnimplemented ==
    /\ last.n = 0
    /\ input.expr.op \in UnimplementedTags
    /\ Evaluate(input.ctx, input.expr)
    /\ UNCHANGED <<input, run>>

\* The orders in which `for (key, value) in map` may visit the entries of a
\* std HashMap built from `fields` (declared order): any order.
iteration_orders(fields) ==
    {[j \in 1..Len(fields) |-> fields[p[j]]] : p \in Permutations(1..Len(fields))}
\* The storage operator `expr` with its maps as the evaluator may iterate them.
as_iterated(expr) ==
    CASE expr.op = "DbInsert" ->
            {[expr EXCEPT !.document = d] : d \in iteration_orders(expr.document)}
      [] expr.op = "DbQuery" ->
            IF is_some(expr.filter)
            THEN {[expr EXCEPT !.filter = Some(f)] : f \in iteration_orders(expr.filter.v)}
            ELSE {expr}
      [] expr.op = "DbDelete" ->
            {[expr EXCEPT !.filter = f] : f \in iteration_orders(expr.filter)}
      [] expr.op = "DbUpdate" ->
            {[expr EXCEPT !.filter = f, !.update = u] :
                f \in iteration_orders(expr.filter), u \in iteration_orders(expr.update)}

\* Executor::eval on an expression of the DbQuery, DbInsert, DbUpdate and
\* DbDelete arms; input.expr holds the maps in declared order, last.expr in
\* the order they were iterated.
EvalStorage ==
    /\ last.n = 0
    /\ input.expr.op \in {"DbQuery", "DbInsert", "DbUpdate", "DbDelete"}
    /\ \E e \in as_iterated(input.expr) : Evaluate(input.ctx, e)
    /\ UNCHANGED <<input, run>>

NextEval ==
    \/ EvalStorage
    \/ EvalUnimplemented
    \/ EvalLiteral
    \/ EvalNot
    \/ EvalIf
    \/ EvalExists
    \/ EvalLogical
    \/ EvalComparison
    \/ EvalValidate
    \/ EvalMerge
    \/ EvalGet

SpecEval == InitEval /\ [][NextEval]_vars

(***************************************************************************)
(* SpecCtx: a Context drawn from the pool, bound with with_var and then    *)
(* rebound with set_var under the same name.  last.ctx is the Context      *)
(* built so far and last.n the number of bindings made.                    *)
(***************************************************************************)
CtxNames == {s_x, s_user, s_empty, s_missing}
CtxValues == {Null, Str(s_a), PosInt(1), Obj1(s_x, Null)}

InitCtx ==
    /\ collections = << >>
    /\ counter = 0
    /\ input \in {[ctx |-> c, expr |-> NoExpr, name |-> n, v1 |-> v1, v2 |-> v2] :
                    c \in EvalCtxs, n \in CtxNames, v1 \in CtxValues, v2 \in CtxValues}
    /\ last = NoEval
    /\ run = NoRun

\* Context::with_var(name, v1) on the Context drawn.
WithVar ==
    /\ last.n = 0
    /\ last' = [last EXCEPT !.n = 1, !.ctx = with_var(input.ctx, input.name, input.v1)]
    /\ UNCHANGED <<collections, counter, input, run>>

\* Context::set_var(name, v2) on the result.
SetVar ==
    /\ last.n = 1
    /\ last' = [last EXCEPT !.n = 2, !.ctx = set_var(last.ctx, input.name, input.v2)]
    /\ UNCHANGED <<collections, counter, input, run>>

\* Context::with_var(name, v2) on the result.
WithVarAgain ==
    /\ last.n = 1
    /\ last' = [last EXCEPT !.n = 3, !.ctx = with_var(last.ctx, input.name, input.v2)]
    /\ UNCHANGED <<collections, counter, input, run>>

NextCtx ==
    \/ WithVar
    \/ SetVar
    \/ WithVarAgain

SpecCtx == InitCtx /\ [][NextCtx]_vars

(***************************************************************************)
(* SpecConc: two requests calling one shared MockDatabase (clones share    *)
(* the Arc'd collections and id generator).  Every call is split at the    *)
(* points where the code takes or gives up a Mutex and at every iteration  *)
(* of a loop over the documents.  `run` holds the collections Mutex        *)
(* (mutex: 0 or its holder), the counter Mutex of the id generator         *)
(* (idlock) and, per request, its position: pc, the index k of its call,   *)
(* the loop index i, its local value acc and the results it has received.  *)
(***************************************************************************)
Requests == {1, 2}

insert_call(c, document) ==
    [kind |-> "insert", collection |-> c, filter |-> << >>, arg |-> document]
query_call(c, filter) ==
    [kind |-> "query", collection |-> c, filter |-> filter, arg |-> << >>]
update_call(c, filter, upd) ==
    [kind |-> "update", collection |-> c, filter |-> filter, arg |-> upd]
delete_call(c, filter) ==
    [kind |-> "delete", collection |-> c, filter |-> filter, arg |-> << >>]

ConcCalls ==
    { insert_call("posts", << >>),
      insert_call("users", << >>),
      query_call("posts", None),
      update_call("posts", << >>, [k \in {s_title} |-> Str(s_b)]),
      delete_call("posts", [k \in {s_title} |-> Null]) }
ConcPrograms == {p \in SeqsUpTo(ConcCalls, MaxCalls) : p # << >>}
ConcStores == {<< >>, [c \in {"posts"} |-> <<Obj1(s_title, Str(s_a)), Obj1(s_id, Str(s_a))>>]}

NoRequest == [pc |-> "idle", k |-> 1, i |-> 1, acc |-> << >>, results |-> << >>]

InitConc ==
    /\ collections \in ConcStores
    /\ counter = 0
    /\ input \in {[ctx |-> Context_new, expr |-> NoExpr, calls |-> <<p, q>>] :
                    p \in ConcPrograms, q \in ConcPrograms}
    /\ last = NoEval
    /\ run = [mutex |-> 0, idlock |-> 0, req |-> [t \in Requests |-> NoRequest]]

Finished(t) == run.req[t].k > Len(input.calls[t])
Call(t) == input.calls[t][run.req[t].k]

\* A lock that never makes a request wait.
can_lock_unguarded(t) == TRUE

\* Mutex::lock on `collections` succeeds for t when nobody holds it.
can_lock(t) == run.mutex = 0

\* The request receives `result` and moves to its next call.
call_returned(req, result) ==
    [pc |-> "idle", k |-> req.k + 1, i |-> 1, acc |-> << >>,
     results |-> Append(req.results, result)]

\* self.collections.lock().unwrap(), first statement of every operation.
Lock(t) ==
    /\ ~Finished(t)
    /\ run.req[t].pc = "idle"
    /\ can_lock(t)
    /\ run' = [run EXCEPT !.mutex = t, !.req[t].pc = Call(t).kind]
    /\ UNCHANGED <<collections, counter, input, last>>

\* query: the collection is cloned (or found missing) and the guard dropped.
QueryClone(t) ==
    /\ run.req[t].pc = "query"
    /\ IF Call(t).collection \in DOMAIN collections
       THEN run' = [run EXCEPT !.mutex = 0, !.req[t].pc = "filter",
                               !.req[t].acc = collections[Call(t).collection]]
       ELSE run' = [run EXCEPT !.mutex = 0, !.req[t] = call_returned(@, Ok(<< >>))]
    /\ UNCHANGED <<collections, counter, input, last>>

\* query: filter of the clone, outside the lock.
QueryFilter(t) ==
    /\ run.req[t].pc = "filter"
    /\ run' = [run EXCEPT !.req[t] = call_returned(@, Ok(apply_filter(@.acc, Call(t).filter)))]
    /\ UNCHANGED <<collections, counter, input, last>>

\* insert: the document is built; without an _id the id generator is called
\* and takes the Mutex of its counter.
InsertDocument(t) ==
    /\ run.req[t].pc = "insert"
    /\ IF s_id \in DOMAIN Call(t).arg
       THEN run' = [run EXCEPT !.req[t].pc = "push", !.req[t].acc = Obj(Call(t).arg)]
       ELSE /\ run.idlock = 0
            /\ run' = [run EXCEPT !.idlock = t, !.req[t].pc = "generate"]
    /\ UNCHANGED <<collections, counter, input, last>>

\* insert: the generator increments its counter, formats the id, unlocks.
InsertGenerate(t) ==
    /\ run.req[t].pc = "generate"
    /\ counter' = insert_doc([counter |-> counter], Call(t).arg).counter
    /\ run' = [run EXCEPT !.idlock = 0, !.req[t].pc = "push",
                          !.req[t].acc = insert_doc([counter |-> counter], Call(t).arg).doc]
    /\ UNCHANGED <<collections, input, last>>

\* insert: entry(collection).or_insert_with(Vec::new).push(doc), return.
InsertPush(t) ==
    /\ run.req[t].pc = "push"
    /\ collections' =
          [c \in DOMAIN collections \cup {Call(t).collection} |->
              IF c # Call(t).collection THEN collections[c]
              ELSE IF c \in DOMAIN collections
                   THEN Append(collections[c], run.req[t].acc)
                   ELSE <<run.req[t].acc>>]
    /\ run' = [run EXCEPT !.mutex = 0, !.req[t] = call_returned(@, Ok(@.acc))]
    /\ UNCHANGED <<counter, input, last>>

\* update: one iteration of `for doc in docs.iter_mut()`.
UpdateDocument(t) ==
    /\ run.req[t].pc = "update"
    /\ Call(t).collection \in DOMAIN collections
    /\ run.req[t].i <= Len(collections[Call(t).collection])
    /\ IF matches_filter(collections[Call(t).collection][run.req[t].i], Call(t).filter)
       THEN /\ collections' =
                  [collections EXCEPT ![Call(t).collection][run.req[t].i] =
                      merge_update(@, Call(t).arg)]
            /\ run' = [run EXCEPT !.req[t].i = @ + 1,
                                  !.req[t].acc =
                                      Append(@, merge_update(
                                          collections[Call(t).collection][run.req[t].i],
                                          Call(t).arg))]
       ELSE /\ run' = [run EXCEPT !.req[t].i = @ + 1]
            /\ UNCHANGED collections
    /\ UNCHANGED <<counter, input, last>>

\* update: the collection is missing or the loop is over; return.
UpdateReturn(t) ==
    /\ run.req[t].pc = "update"
    /\ IF Call(t).collection \in DOMAIN collections
       THEN run.req[t].i > Len(collections[Call(t).collection])
       ELSE TRUE
    /\ run' = [run EXCEPT !.mutex = 0, !.req[t] = call_returned(@, Ok(@.acc))]
    /\ UNCHANGED <<collections, counter, input, last>>

\* delete: one iteration of `while i < docs.len()`.
DeleteDocument(t) ==
    /\ run.req[t].pc = "delete"
    /\ Call(t).collection \in DOMAIN collections
    /\ run.req[t].i <= Len(collections[Call(t).collection])
    /\ IF matches_filter(collections[Call(t).collection][run.req[t].i], Call(t).filter)
       THEN /\ collections' =
                  [collections EXCEPT ![Call(t).collection] =
                      SubSeq(@, 1, run.req[t].i - 1) \o SubSeq(@, run.req[t].i + 1, Len(@))]
            /\ run' = [run EXCEPT !.req[t].acc =
                                      Append(@, collections[Call(t).collection][run.req[t].i])]
       ELSE /\ run' = [run EXCEPT !.req[t].i = @ + 1]
            /\ UNCHANGED collections
    /\ UNCHANGED <<counter, input, last>>

\* delete: the collection is missing or the loop is over; return.
DeleteReturn(t) ==
    /\ run.req[t].pc = "delete"
    /\ IF Call(t).collection \in DOMAIN collections
       THEN run.req[t].i > Len(collections[Call(t).collection])
       ELSE TRUE
    /\ run' = [run EXCEPT !.mutex = 0, !.req[t] = call_returned(@, Ok(@.acc))]
    /\ UNCHANGED <<collections, counter, input, last>>

NextConc ==
    \/ \E t \in Requests : Lock(t)
    \/ \E t \in Requests : QueryClone(t)
    \/ \E t \in Requests : QueryFilter(t)
    \/ \E t \in Requests : InsertDocument(t)
    \/ \E t \in Requests : InsertGenerate(t)
    \/ \E t \in Requests : InsertPush(t)
    \/ \E t \in Requests : UpdateDocument(t)
    \/ \E t \in Requests : UpdateReturn(t)
    \/ \E t \in Requests : DeleteDocument(t)
    \/ \E t \in Requests : DeleteReturn(t)

SpecConc == InitConc /\ [][NextConc]_vars

(***************************************************************************)
(* Claims about the storage operators (Spec).                              *)
(***************************************************************************)
DocsBefore(c) ==
    IF c \in DOMAIN last.before.collections THEN last.before.collections[c] ELSE << >>
\* The filter map a storage operator hands to the provider.
EvaluatedFilter == eval_fields(last.ctx, last.expr.filter, << >>, DB).res.val

\* C1: in every reachable storage state, when $dbInsert(C, D) has just returned
\* D', $dbQuery(C, filter {_id: D'._id}) evaluated next returns exactly [D'].
C1_InsertThenQuery ==
    (last.expr.op = "DbInsert" /\ last.res.ok) =>
        eval(last.ctx,
             PlainQuery(last.expr.collection,
                        Some(<<Field(s_id, Literal(last.res.val.o[s_id]))>>)),
             DB).res = Ok(Arr(<<last.res.val>>))

\* C2: when $dbDelete(C, F) has just returned K, K is exactly the documents of C
\* that matched F (in order), a filterless $dbQuery of C evaluated next returns
\* exactly the documents that did not match F, and no element of K is among them.
C2_DeleteThenQuery ==
    (last.expr.op = "DbDelete" /\ last.res.ok) =>
        LET docs == DocsBefore(last.expr.collection)
            K == last.res.val.a
            visible == eval(last.ctx, PlainQuery(last.expr.collection, None), DB).res
        IN  /\ K = SelectSeq(docs, LAMBDA d : matches_filter(d, EvaluatedFilter))
            /\ visible = Ok(Arr(SelectSeq(docs, LAMBDA d : ~matches_filter(d, EvaluatedFilter))))
            /\ \A i \in 1..Len(K) : \A j \in 1..Len(visible.val.a) : visible.val.a[j] # K[i]

\* A delete that removed two documents next to each other and left one.
C2_Witness ==
    /\ last.expr.op = "DbDelete"
    /\ last.res.ok
    /\ Len(last.res.val.a) = 2
    /\ \E i \in 1..(Len(DocsBefore(last.expr.collection)) - 1) :
          /\ matches_filter(DocsBefore(last.expr.collection)[i], EvaluatedFilter)
          /\ matches_filter(DocsBefore(last.expr.collection)[i + 1], EvaluatedFilter)
    /\ Len(collections[last.expr.collection]) = 1

(***************************************************************************)
(* Claims about the pipeline (SpecPipe).                                   *)
(***************************************************************************)
\* Step i, or the response for i = Len(run.steps) + 1, has been evaluated.
Evaluated(i) == run.pc > i \/ (run.pc = i /\ run.outcome # Pending)
\* The steps among 1..k that bind `name`.
Binders(name, k) == {i \in 1..k : run.steps[i].name = Some(name)}
\* The binding of `name` that the named results of steps 1..k leave.
BoundAfter(name, k) ==
    IF Binders(name, k) = {} THEN None
    ELSE run.results[CHOOSE i \in Binders(name, k) : \A j \in Binders(name, k) : j <= i]
StepNames == {s_ins, s_all, s_x}
ScenarioSteps ==
    <<Step(Some(s_ins), DbInsert("posts", doc_T)), Step(Some(s_all), PlainQuery("posts", None))>>

\* C3: steps are evaluated one at a time in declaration order; the n-th
\* evaluation of a run sees exactly the named results of steps 1..n-1, and the
\* storage they left: a filterless $dbQuery in the step after a $dbInsert into
\* the same collection returns the inserted document.  On empty storage the run
\* [ins = $dbInsert(posts, {title: "T"}), all = $dbQuery(posts)] with response
\* $get "all" yields a one-element array whose element has title "T" and a
\* non-empty string _id.
C3_StepsThreadState ==
    /\ Len(run.results) = last.n \/ Len(run.results) = last.n - 1
    /\ run.outcome = Pending => run.pc = last.n + 1 /\ Len(run.results) = last.n
    /\ last.n >= 1 =>
          \A name \in StepNames : get(last.ctx, name) = BoundAfter(name, last.n - 1)
    /\ \A name \in StepNames : get(run.ctx, name) = BoundAfter(name, Len(run.results))
    /\ DOMAIN run.ctx \subseteq StepNames
    /\ \A i \in 2..Len(run.results) :
          (/\ run.steps[i - 1].value.op = "DbInsert"
           /\ run.steps[i].value = PlainQuery(run.steps[i - 1].value.collection, None))
          => /\ run.results[i].a # << >>
             /\ run.results[i].a[Len(run.results[i].a)] = run.results[i - 1]
    /\ (/\ run.steps = ScenarioSteps
        /\ run.response = Conditional(Get(s_all))
        /\ run.outcome # Pending)
       => /\ run.outcome.kind = "Value"
          /\ run.outcome.val.t = "arr"
          /\ Len(run.outcome.val.a) = 1
          /\ run.outcome.val.a[1].o[s_title] = Str(s_T)
          /\ run.outcome.val.a[1].o[s_id].t = "str"
          /\ run.outcome.val.a[1].o[s_id].s # s_empty

C3_Witness ==
    /\ run.steps = ScenarioSteps
    /\ run.response = Conditional(Get(s_all))
    /\ run.outcome.kind = "Value"
    /\ last.ctx = run.ctx
    /\ get(run.ctx, s_all) = run.outcome.val
    /\ collections["posts"] = run.outcome.val.a

\* C4: whenever a step that is a $return has been evaluated, the outcome of the
\* run is EarlyReturn with that step's status and evaluated body, no later step
\* has been evaluated and the response expression has not been evaluated.
C4_ReturnHalts ==
    \A i \in 1..Len(run.steps) :
        (run.steps[i].value.op = "Return" /\ Evaluated(i)) =>
            /\ run.outcome.kind = "EarlyReturn"
            /\ run.outcome.val.status = run.steps[i].value.status
            /\ Ok(run.outcome.val.body) = eval(run.ctx, run.steps[i].value.body, DB).res
            /\ run.pc = i
            /\ last.expr = run.steps[i].value

(***************************************************************************)
(* Claims about one evaluation (SpecEval).                                 *)
(***************************************************************************)
\* The storage after conditions 1..i of the evaluated And/Or, taken in order.
RECURSIVE DbAfterConds(_)
DbAfterConds(i) ==
    IF i = 0 THEN last.before
    ELSE eval(last.ctx, last.expr.conditions[i], DbAfterConds(i - 1)).db
CondResult(i) == eval(last.ctx, last.expr.conditions[i], DbAfterConds(i - 1))
\* Condition i ends the evaluation: it raises, or its truthiness is `deciding`.
Decides(i, deciding) ==
    ~CondResult(i).res.ok \/ (is_truthy(CondResult(i).res.val) = deciding)
SameStorage(db) ==
    collections = db.collections /\ counter = db.counter /\ last.calls = db.calls

\* C5: $and returns false at the first non-truthy condition and $or returns true
\* at the first truthy one (or the error of a condition that raises before it);
\* the result and the storage are those of the conditions up to that one, so no
\* later condition raises, writes to storage or calls the provider.
C5_ShortCircuit ==
    last.expr.op \in {"And", "Or"} =>
        LET deciding == last.expr.op = "Or"
            n == Len(last.expr.conditions)
            D == {i \in 1..n : Decides(i, deciding)}
        IN  IF D = {}
            THEN last.res = Ok(Bool(~deciding)) /\ SameStorage(DbAfterConds(n))
            ELSE \E k \in D :
                    /\ \A j \in D : k <= j
                    /\ last.res = IF CondResult(k).res.ok THEN Ok(Bool(deciding))
                                  ELSE CondResult(k).res
                    /\ SameStorage(CondResult(k).db)

C5_Witness ==
    /\ last.expr = And(<<Literal(Bool(FALSE)), DbInsert("posts", << >>)>>)
    /\ last.res = Ok(Bool(FALSE))
    /\ SameStorage(last.before)

\* The comparison `o` of the operands of the evaluated comparison is true.
Holds(o) ==
    eval(last.ctx, Cmp(o, last.expr.left, last.expr.right), last.before).res = Ok(Bool(TRUE))
Homogeneous(ts) ==
    /\ last.expr.left.op = "Literal" /\ last.expr.right.op = "Literal"
    /\ last.expr.left.v.t \in ts /\ last.expr.right.v.t = last.expr.left.v.t

\* C6: for two numbers, or two strings, exactly one of $gt, $eq, $lt is true,
\* $gte is true iff $gt or $eq is, and $lte is true iff $lt or $eq is.
C6_ComparisonTotality ==
    (last.expr.op \in CmpOps /\ Homogeneous({"num", "str"})) =>
        /\ last.res = Ok(Bool(Holds(last.expr.op)))
        /\ Cardinality({o \in {"Gt", "Eq", "Lt"} : Holds(o)}) = 1
        /\ Holds("Gte") <=> (Holds("Gt") \/ Holds("Eq"))
        /\ Holds("Lte") <=> (Holds("Lt") \/ Holds("Eq"))

DataResult == eval(last.ctx, last.expr.data, last.before)
OnFailResult == eval(last.ctx, last.expr.on_fail.v, DataResult.db)
ValidateRejects ==
    /\ last.expr.op = "Validate"
    /\ DataResult.res.ok
    /\ schema_compiles(last.expr.schema)
    /\ ~is_valid(last.expr.schema, DataResult.res.val)
ValidateAccepts ==
    /\ last.expr.op = "Validate"
    /\ DataResult.res.ok
    /\ schema_compiles(last.expr.schema)
    /\ is_valid(last.expr.schema, DataResult.res.val)
RejectedResult ==
    /\ is_some(last.expr.on_fail) =>
          last.res = OnFailResult.res /\ SameStorage(OnFailResult.db)
    /\ is_none(last.expr.on_fail) =>
          /\ ~last.res.ok
          /\ last.res.val.kind = "ValidationError"
          /\ last.res.val.errors # << >>
          /\ SameStorage(DataResult.db)

\* C7 as stated: when d is rejected by a schema that compiles, the result is the
\* result of on_fail if present and a ValidationError with a non-empty list of
\* violations if absent, and it is never the value d.
C7_RejectedNeverData ==
    ValidateRejects => RejectedResult /\ last.res # Ok(DataResult.res.val)

\* C7 amended: as above, and the result is the value d only when on_fail is
\* present and itself evaluates to d.
C7_RejectedYieldsOnFail ==
    ValidateRejects =>
        /\ RejectedResult
        /\ last.res = Ok(DataResult.res.val) =>
              is_some(last.expr.on_fail) /\ OnFailResult.res = Ok(DataResult.res.val)

C7_Witness ==
    /\ ValidateRejects
    /\ last.expr.on_fail = Some(Literal(PosInt(5)))
    /\ last.res = Ok(PosInt(5))
    /\ DataResult.res = Ok(PosInt(5))

\* C8: when d conforms to the schema, $validate returns d and the storage and
\* the provider calls are those of evaluating data alone: on_fail is not
\* evaluated.
C8_ValidateIdentity ==
    ValidateAccepts => last.res = DataResult.res /\ SameStorage(DataResult.db)

C8_Witness ==
    /\ ValidateAccepts
    /\ last.expr.on_fail = Some(DbInsert("users", << >>))
    /\ last.expr.data = Get(s_x)
    /\ last.res = Ok(Str(s_a))
    /\ SameStorage(last.before)

\* The values of the elements of the evaluated merge list.
MergeObject(i) == eval(last.ctx, last.expr.objects[i], last.before).res
AllObjects ==
    \A i \in 1..Len(last.expr.objects) : MergeObject(i).ok /\ MergeObject(i).val.t = "obj"
Holders(k) == {i \in 1..Len(last.expr.objects) : k \in DOMAIN MergeObject(i).val.o}

\* C9: when every element evaluates to an object, $merge returns an object whose
\* keys are the union of their keys and whose value at k is that of the last
\* element holding k, whole (a nested object is replaced); the empty list
\* yields the empty object.
C9_MergePrecedence ==
    (last.expr.op = "Merge" /\ AllObjects) =>
        /\ last.res.ok /\ last.res.val.t = "obj"
        /\ DOMAIN last.res.val.o =
              UNION {DOMAIN MergeObject(i).val.o : i \in 1..Len(last.expr.objects)}
        /\ \A k \in DOMAIN last.res.val.o :
              \E i \in Holders(k) :
                  /\ \A j \in Holders(k) : j <= i
                  /\ last.res.val.o[k] = MergeObject(i).val.o[k]
        /\ last.expr.objects = << >> => last.res = Ok(EmptyObj)

C9_Witness ==
    /\ last.expr = Merge(<<Literal(Obj2(s_a, PosInt(2), s_b, Obj1(s_x, Null))),
                           Literal(Obj1(s_b, Obj1(s_n, PosInt(1))))>>)
    /\ last.res = Ok(Obj2(s_a, PosInt(2), s_b, Obj1(s_n, PosInt(1))))

\* `part` is a decimal numeral of n (Rust's usize parse: an optional '+', then
\* digits).
RECURSIVE NumeralValue(_)
NumeralValue(ds) ==
    IF ds = << >> THEN 0 ELSE 10 * NumeralValue(SubSeq(ds, 1, Len(ds) - 1)) + (ds[Len(ds)] - 48)
Denotes(part, n) ==
    \E ds \in {part} \cup {Tail(part) : x \in {y \in {part} : y # << >> /\ y[1] = 43}} :
        /\ ds # << >>
        /\ \A i \in 1..Len(ds) : ds[i] \in 48..57
        /\ NumeralValue(ds) = n
\* The Value reached from v by the path components `parts`, or None.
RECURSIVE Reached(_, _)
Reached(v, parts) ==
    IF parts = << >> THEN v
    ELSE IF v.t = "obj" /\ Head(parts) \in DOMAIN v.o
    THEN Reached(v.o[Head(parts)], Tail(parts))
    ELSE IF v.t = "arr" /\ \E i \in 1..Len(v.a) : Denotes(Head(parts), i - 1)
    THEN Reached(v.a[CHOOSE i \in 1..Len(v.a) : Denotes(Head(parts), i - 1)], Tail(parts))
    ELSE None
Target ==
    LET parts == split(last.expr.path)
    IN  IF Head(parts) \in DOMAIN last.ctx
        THEN Reached(last.ctx[Head(parts)], Tail(parts))
        ELSE None

\* C10: $get(path) returns the Value reached from the Context by the dotted
\* path (variable, then object keys and decimal array indexes), and in every
\* other case fails with PathNotFound carrying the requested path; the storage
\* is untouched.
C10_GetPath ==
    last.expr.op = "Get" =>
        /\ last.res = IF is_some(Target) THEN Ok(Target)
                      ELSE Err([kind |-> "PathNotFound", path |-> last.expr.path])
        /\ SameStorage(last.before)

C10_Witness ==
    /\ last.expr = Get(s_user \o dot \o s_a \o dot \o <<49>> \o dot \o s_b)
    /\ last.ctx = EvalCtx
    /\ last.res = Ok(Null)

\* The path is empty, or has a leading dot, a trailing dot or two dots in a row.
HasEmptyComponent(path) ==
    \/ path = << >>
    \/ path[1] = 46
    \/ path[Len(path)] = 46
    \/ \E i \in 1..(Len(path) - 1) : path[i] = 46 /\ path[i + 1] = 46

\* C11: for every Context, also one with an empty variable name or an empty
\* object key, a path with an empty component is not found by get_path and
\* has_path, and $get on it fails with PathNotFound.
C11_EmptyComponentsNotFound ==
    (last.expr.op = "Get" /\ HasEmptyComponent(last.expr.path)) =>
        /\ is_none(get_path(last.ctx, last.expr.path))
        /\ ~has_path(last.ctx, last.expr.path)
        /\ last.res = Err([kind |-> "PathNotFound", path |-> last.expr.path])

ExistsArg == eval(last.ctx, last.expr.value, last.before)

OrderOps == {"Gt", "Gte", "Lt", "Lte"}
\* Lexicographic order of two strings: a is before b.
LexBefore(a, b) ==
    \E k \in 0..Len(a) :
        /\ k <= Len(b)
        /\ \A i \in 1..k : a[i] = b[i]
        /\ IF k = Len(a) THEN k < Len(b) ELSE k < Len(b) /\ a[k + 1] < b[k + 1]
StringOrder(o, a, b) ==
    CASE o = "Gt" -> LexBefore(b, a)
      [] o = "Gte" -> ~LexBefore(a, b)
      [] o = "Lt" -> LexBefore(a, b)
      [] o = "Lte" -> ~LexBefore(b, a)

\* C13: $gt, $gte, $lt and $lte return a Boolean on two numbers and on two
\* strings (the lexicographic order), and fail with TypeError on every other
\* pair of operand types, two values of one other type included.
C13_OrderingTypes ==
    (/\ last.expr.op \in OrderOps
     /\ last.expr.left.op = "Literal" /\ last.expr.right.op = "Literal") =>
        LET l == last.expr.left.v
            r == last.expr.right.v
        IN  IF l.t = "num" /\ r.t = "num"
            THEN last.res.ok /\ last.res.val.t = "bool"
            ELSE IF l.t = "str" /\ r.t = "str"
            THEN last.res = Ok(Bool(StringOrder(last.expr.op, l.s, r.s)))
            ELSE ~last.res.ok /\ last.res.val.kind = "TypeError"

C13_Witness ==
    /\ last.expr = Cmp("Gte", Literal(Bool(TRUE)), Literal(Bool(FALSE)))
    /\ ~last.res.ok
    /\ last.res.val.kind = "TypeError"

\* The Values that count as false: null, false, a zero number, and the empty
\* string, array and object.
Falsy(v) ==
    \/ v.t = "null"
    \/ v.t = "bool" /\ ~v.b
    \/ v.t = "num" /\ v.hi = 0 /\ v.lo = 0 /\ v.half = 0
    \/ v.t = "str" /\ Len(v.s) = 0
    \/ v.t = "arr" /\ Len(v.a) = 0
    \/ v.t = "obj" /\ DOMAIN v.o = {}
IfCondition == eval(last.ctx, last.expr.condition, last.before)
\* The branch $if selects, or None.
IfBranch == IF ~Falsy(IfCondition.res.val) THEN Some(last.expr.then) ELSE last.expr.else
IfBranchResult == eval(last.ctx, IfBranch.v, IfCondition.db)

\* C14: $if evaluates condition first; it returns the evaluation of then when
\* the condition is truthy, of else otherwise, and null when else is absent;
\* result and storage are those of the condition and the selected branch alone,
\* so the other branch is not evaluated.  A condition that raises is the result.
C14_IfSelectsOneBranch ==
    last.expr.op = "If" =>
        IF ~IfCondition.res.ok THEN last.res = IfCondition.res /\ SameStorage(IfCondition.db)
        ELSE IF is_some(IfBranch)
        THEN last.res = IfBranchResult.res /\ SameStorage(IfBranchResult.db)
        ELSE last.res = Ok(Null) /\ SameStorage(IfCondition.db)

C14_Witness ==
    /\ last.expr = If(Literal(Str(s_empty)), DbInsert("posts", << >>), Some(Literal(Str(s_b))))
    /\ last.res = Ok(Str(s_b))
    /\ SameStorage(last.before)

\* The evaluated expression decides on the truthiness of the literal v alone.
DecidesOn(v) ==
    \/ last.expr = Not(Literal(v))
    \/ last.expr = If(Literal(v), Literal(Str(s_a)), Some(Literal(Str(s_b))))
    \/ last.expr = And(<<Literal(v)>>)
    \/ last.expr = Or(<<Literal(v)>>)

\* C15: is_truthy is false exactly for null, false, a zero number (0, 0.0 and
\* -0.0), "", [] and {}, and $not, $if, $and and $or all decide by it.
C15_Truthiness ==
    \A v \in TruthValues :
        DecidesOn(v) =>
            /\ is_truthy(v) = ~Falsy(v)
            /\ last.expr.op = "Not" => last.res = Ok(Bool(Falsy(v)))
            /\ last.expr.op = "If" => last.res = Ok(Str(IF Falsy(v) THEN s_b ELSE s_a))
            /\ last.expr.op \in {"And", "Or"} => last.res = Ok(Bool(~Falsy(v)))

C15_Witness ==
    /\ last.expr = If(Literal(Float(TRUE, 0, 0)), Literal(Str(s_a)), Some(Literal(Str(s_b))))
    /\ last.res = Ok(Str(s_b))

NotOperand == eval(last.ctx, last.expr.condition, last.before)

\* C16: $and of no conditions is true, $or of no conditions is false, $not(x)
\* is the negation of the truthiness of x, and every result of $and, $or and
\* $not is a Boolean.
C16_LogicalResults ==
    /\ last.expr = And(<< >>) => last.res = Ok(Bool(TRUE))
    /\ last.expr = Or(<< >>) => last.res = Ok(Bool(FALSE))
    /\ (last.expr.op = "Not" /\ NotOperand.res.ok) =>
          last.res = Ok(Bool(Falsy(NotOperand.res.val)))
    /\ (last.expr.op \in {"And", "Or", "Not"} /\ last.res.ok) => last.res.val.t = "bool"

C16_Witness ==
    /\ last.expr = Or(<<Literal(Str(s_a))>>)
    /\ last.res = Ok(Bool(TRUE))

\* C18: a literal evaluates to its own Value in every Context, also when the
\* Value is an object shaped like an operator; the evaluation never fails and
\* leaves the storage and the record of storage and clock calls as they were.
C18_LiteralIdentity ==
    (last.n = 1 /\ last.expr.op = "Literal") =>
        /\ last.res = Ok(last.expr.v)
        /\ SameStorage(last.before)

C18_Witness ==
    /\ last.n = 1
    /\ last.expr = Literal(Obj1(s_get, Str(s_x)))
    /\ has(last.ctx, s_x)
    /\ collections # << >>
    /\ last.res = Ok(Obj1(s_get, Str(s_x)))

\* The document map $dbInsert hands to the provider.
GivenDocument == eval_fields(last.ctx, last.expr.document, << >>, last.before).res.val

\* C19: when $dbInsert(C, D) has just returned D', D' is the document appended
\* to C; D' has an _id: the one D brought, unchanged, or else the string the
\* identity generator produced; every other field of D' is the field of D; no
\* other collection changed, and a collection that did not exist now holds
\* exactly D'.
C19_InsertIdentity ==
    (last.expr.op = "DbInsert" /\ last.res.ok) =>
        LET c == last.expr.collection
            returned == last.res.val
        IN  /\ c \in DOMAIN collections
            /\ collections[c] = Append(DocsBefore(c), returned)
            /\ returned.t = "obj"
            /\ DOMAIN returned.o = DOMAIN GivenDocument \cup {s_id}
            /\ \A k \in DOMAIN GivenDocument : returned.o[k] = GivenDocument[k]
            /\ s_id \notin DOMAIN GivenDocument =>
                  /\ returned.o[s_id] = Str(s_id_prefix \o to_decimal(last.before.counter + 1))
                  /\ counter = last.before.counter + 1
            /\ s_id \in DOMAIN GivenDocument => counter = last.before.counter
            /\ DOMAIN collections = DOMAIN last.before.collections \cup {c}
            /\ \A o \in DOMAIN last.before.collections :
                  o # c => collections[o] = last.before.collections[o]
            /\ c \notin DOMAIN last.before.collections => collections[c] = <<returned>>

\* An insert with a supplied _id and another field into a collection that did
\* not exist, after the generator has been used.
C19_Witness ==
    /\ last.expr.op = "DbInsert" /\ last.res.ok
    /\ last.expr.collection \notin DOMAIN last.before.collections
    /\ last.before.counter > 0
    /\ s_id \in DOMAIN GivenDocument /\ s_title \in DOMAIN GivenDocument
    /\ collections[last.expr.collection] = <<Obj(GivenDocument)>>

\* A document is a stored object.  (with_collection can also store a value
\* that is no object; it has no fields and no filter map selects it.)
IsDocument(d) == d.t = "obj"
\* The claim's rule for one document and a filter map.
Matches(d, F) ==
    \A key \in DOMAIN F :
        \/ key \in DOMAIN d.o /\ d.o[key] = F[key]
        \/ key \notin DOMAIN d.o /\ F[key] = Null
Selected(docs, F) == SelectSeq(docs, LAMBDA d : IsDocument(d) /\ Matches(d, F))
Unselected(docs, F) == SelectSeq(docs, LAMBDA d : ~(IsDocument(d) /\ Matches(d, F)))
\* The filter map of the storage operator just evaluated.
FilterGiven ==
    IF last.expr.op = "DbQuery"
    THEN eval_fields(last.ctx, last.expr.filter.v, << >>, last.before).res.val
    ELSE eval_fields(last.ctx, last.expr.filter, << >>, last.before).res.val
UpdateGiven == eval_fields(last.ctx, last.expr.update, << >>, last.before).res.val
\* A query with a filter map and no select, limit, skip or sort.
FilterOnlyQuery ==
    /\ last.expr.op = "DbQuery"
    /\ is_some(last.expr.filter)
    /\ is_none(last.expr.select) /\ is_none(last.expr.limit)
    /\ is_none(last.expr.skip) /\ is_none(last.expr.sort)

DocsNow(c) == IF c \in DOMAIN collections THEN collections[c] ELSE << >>
\* The elements of seq at the positions in S, in order.
AtPositions(seq, S) ==
    LET indexed == [j \in 1..Len(seq) |-> [i |-> j, doc |-> seq[j]]]
        kept == SelectSeq(indexed, LAMBDA e : e.i \in S)
    IN  [j \in 1..Len(kept) |-> kept[j].doc]
\* Every collection other than c is as it was before the operator.
OthersUntouched(c) ==
    /\ DOMAIN collections \ {c} = DOMAIN last.before.collections \ {c}
    /\ \A o \in DOMAIN collections \ {c} : collections[o] = last.before.collections[o]

\* C21: when $dbUpdate(C, F, U) has just returned, every document of C that
\* matched F now has U's value under each key of U and its own value under
\* every other key; every other document is as it was; C has the same number
\* of documents at the same positions; the result is the post-update matched
\* documents in order; no other collection and no identity counter changed.
C21_UpdateFrame ==
    (last.expr.op = "DbUpdate" /\ last.res.ok) =>
        LET c == last.expr.collection
            docs == DocsBefore(c)
            now == DocsNow(c)
            hit == {j \in 1..Len(docs) : matches_filter(docs[j], FilterGiven)}
        IN  /\ Len(now) = Len(docs)
            /\ (c \in DOMAIN collections) <=> (c \in DOMAIN last.before.collections)
            /\ \A j \in hit :
                  /\ now[j].t = "obj"
                  /\ DOMAIN now[j].o = DOMAIN docs[j].o \cup DOMAIN UpdateGiven
                  /\ \A k \in DOMAIN now[j].o :
                        now[j].o[k] = IF k \in DOMAIN UpdateGiven
                                      THEN UpdateGiven[k] ELSE docs[j].o[k]
            /\ \A j \in (1..Len(docs)) \ hit : now[j] = docs[j]
            /\ last.res.val.a = AtPositions(now, hit)
            /\ OthersUntouched(c)
            /\ counter = last.before.counter

\* An update by {_id: "a"} that set the title of one document, kept its _id,
\* and left another document of the collection as it was.
C21_Witness ==
    /\ last.expr.op = "DbUpdate" /\ last.res.ok
    /\ last.res.val.a = <<Obj2(s_id, Str(s_a), s_title, Str(s_b))>>
    /\ Len(DocsNow(last.expr.collection)) >= 2
    /\ \E j \in 1..Len(DocsBefore(last.expr.collection)) :
          /\ DocsBefore(last.expr.collection)[j] = Obj2(s_id, Str(s_a), s_title, Str(s_a))
          /\ DocsNow(last.expr.collection)[j] = Obj2(s_id, Str(s_a), s_title, Str(s_b))

\* C22: when $dbQuery, $dbUpdate or $dbDelete has just been evaluated on a
\* collection name that held no collection, the result is the empty array and
\* the storage is as it was: the collection was not created, no other
\* collection and no identity counter changed.
C22_MissingCollection ==
    (/\ last.expr.op \in {"DbQuery", "DbUpdate", "DbDelete"}
     /\ last.expr.collection \notin DOMAIN last.before.collections) =>
        /\ last.res = Ok(Arr(<< >>))
        /\ collections = last.before.collections
        /\ last.expr.collection \notin DOMAIN collections
        /\ counter = last.before.counter

\* An update of a collection that does not exist while another holds documents.
C22_Witness ==
    /\ last.expr.op = "DbUpdate"
    /\ last.expr.collection \notin DOMAIN last.before.collections
    /\ \E o \in DOMAIN collections : Len(collections[o]) >= 2
    /\ last.res = Ok(Arr(<< >>))

\* The position sets of a sequence.
Positions(seq) == SUBSET (1..Len(seq))
\* The documents a query returned, before projection onto `select`.
Projected(docs) ==
    IF is_some(last.expr.select)
    THEN [j \in 1..Len(docs) |-> project_fields(docs[j], last.expr.select.v)]
    ELSE docs

\* C23: every storage operator keeps the stored order, which is the order of
\* insertion: an insert appends; a delete leaves the remaining documents in
\* their order and returns the removed ones in their order; an update keeps
\* every position and returns the updated documents in their order; a query
\* without sort returns documents in stored order and moves nothing.
C23_InsertionOrder ==
    /\ (last.expr.op = "DbInsert" /\ last.res.ok) =>
          DocsNow(last.expr.collection)
              = Append(DocsBefore(last.expr.collection), last.res.val)
    /\ (last.expr.op = "DbDelete" /\ last.res.ok) =>
          \E S \in Positions(DocsBefore(last.expr.collection)) :
              /\ last.res.val.a = AtPositions(DocsBefore(last.expr.collection), S)
              /\ DocsNow(last.expr.collection)
                    = AtPositions(DocsBefore(last.expr.collection),
                                  (1..Len(DocsBefore(last.expr.collection))) \ S)
    /\ (last.expr.op = "DbUpdate" /\ last.res.ok) =>
          /\ Len(DocsNow(last.expr.collection)) = Len(DocsBefore(last.expr.collection))
          /\ \E S \in Positions(DocsNow(last.expr.collection)) :
                /\ last.res.val.a = AtPositions(DocsNow(last.expr.collection), S)
                /\ \A j \in (1..Len(DocsNow(last.expr.collection))) \ S :
                      DocsNow(last.expr.collection)[j] = DocsBefore(last.expr.collection)[j]
    /\ (last.expr.op = "DbQuery" /\ last.res.ok /\ is_none(last.expr.sort)) =>
          /\ DocsNow(last.expr.collection) = DocsBefore(last.expr.collection)
          /\ \E S \in Positions(DocsBefore(last.expr.collection)) :
                last.res.val.a = Projected(AtPositions(DocsBefore(last.expr.collection), S))

\* A filterless query without sort, third operator of a session, that returns
\* the stored documents with the one whose identity was generated in last place.
C23_Witness ==
    /\ last.n = 3
    /\ last.expr = PlainQuery("posts", None)
    /\ last.res.ok
    /\ Len(last.res.val.a) >= 2
    /\ last.res.val.a = collections["posts"]
    /\ IsDocument(last.res.val.a[Len(last.res.val.a)])
    /\ s_id \in DOMAIN last.res.val.a[Len(last.res.val.a)].o
    /\ last.res.val.a[Len(last.res.val.a)].o[s_id] = Str(id_1)
    /\ last.res.val.a[1] # last.res.val.a[Len(last.res.val.a)]

StorageOps == {"DbQuery", "DbInsert", "DbUpdate", "DbDelete"}
OwnCall ==
    CASE last.expr.op = "DbQuery" -> "query"
      [] last.expr.op = "DbInsert" -> "insert"
      [] last.expr.op = "DbUpdate" -> "update"
      [] last.expr.op = "DbDelete" -> "delete"
\* The evaluation of the fields of the storage operator just evaluated, in the
\* order the arm takes them: the filter (or the document), then the update.
FirstFields ==
    IF last.expr.op = "DbInsert" THEN last.expr.document
    ELSE IF last.expr.op = "DbQuery"
    THEN (IF is_some(last.expr.filter) THEN last.expr.filter.v ELSE << >>)
    ELSE last.expr.filter
FieldsEvaluated ==
    LET first == eval_fields(last.ctx, FirstFields, << >>, last.before)
    IN  IF last.expr.op = "DbUpdate" /\ first.res.ok
        THEN eval_fields(last.ctx, last.expr.update, << >>, first.db)
        ELSE first

\* C26 as stated: when a field of a storage operator raises, the storage
\* collaborator has not been called and the storage is as it was.
C26_ErrorLeavesStorage ==
    (last.n = 1 /\ last.expr.op \in StorageOps /\ ~FieldsEvaluated.res.ok) =>
        /\ last.res = FieldsEvaluated.res
        /\ SameStorage(last.before)

\* C26, amended: a storage operator calls the storage collaborator after all
\* its fields are evaluated; when a field raises, the operator's result is
\* that error, the operator makes no call of its own, and the storage and the
\* record of calls are what the field evaluations up to the error made them.
C26_EvaluateBeforeCall ==
    (last.n = 1 /\ last.expr.op \in StorageOps) =>
        IF FieldsEvaluated.res.ok
        THEN /\ last.res.ok
             /\ last.calls = Append(FieldsEvaluated.db.calls, OwnCall)
        ELSE /\ last.res = FieldsEvaluated.res
             /\ collections = FieldsEvaluated.db.collections
             /\ counter = FieldsEvaluated.db.counter
             /\ last.calls = FieldsEvaluated.db.calls

\* A $dbInsert whose first document field is itself a $dbInsert and whose
\* second raises: PathNotFound, one document stored by the inner operator,
\* no call by the outer one.
C26_Witness ==
    /\ last.n = 1
    /\ last.expr = DbInsert("posts", <<Field(s_a, DbInsert("posts", << >>)),
                                       Field(s_title, Get(s_missing))>>)
    /\ last.res = Err(path_not_found(s_missing))
    /\ last.calls = <<"insert">>
    /\ counter = last.before.counter + 1
    /\ Len(collections["posts"]) = Len(DocsBefore("posts")) + 1

\* The sub-expressions of the expression just evaluated, in the order the
\* arm of its operator names them.
SubExpressions ==
    CASE last.expr.op \in CmpOps -> <<last.expr.left, last.expr.right>>
      [] last.expr.op \in {"And", "Or"} -> last.expr.conditions
      [] last.expr.op = "Merge" -> last.expr.objects
      [] last.expr.op = "Not" -> <<last.expr.condition>>
      [] last.expr.op = "Exists" -> <<last.expr.value>>
      [] last.expr.op = "If" -> <<last.expr.condition>>
      [] last.expr.op = "Validate" -> <<last.expr.data>>
      [] last.expr.op \in StorageOps ->
            [j \in 1..Len(FirstFields) |-> FirstFields[j].value]
      [] OTHER -> << >>
FirstEvaluated == eval(last.ctx, SubExpressions[1], last.before)
SecondEvaluated == eval(last.ctx, SubExpressions[2], FirstEvaluated.db)
\* After the first sub-expression the arm goes on to the second.
GoesOn ==
    /\ Len(SubExpressions) >= 2
    /\ FirstEvaluated.res.ok
    /\ last.expr.op = "And" => is_truthy(FirstEvaluated.res.val)
    /\ last.expr.op = "Or" => ~is_truthy(FirstEvaluated.res.val)
    /\ last.expr.op = "Merge" => FirstEvaluated.res.val.t = "obj"

AsDeclared == eval(input.ctx, input.expr, last.before)

\* C28: the result, the storage and the calls made are those of evaluating
\* the sub-expressions in declared order; when the first sub-expression raises
\* the result is its error, whatever the later ones would do.
C28_LeftToRight ==
    (last.n = 1 /\ SubExpressions # << >>) =>
        /\ last.res = AsDeclared.res
        /\ SameStorage(AsDeclared.db)
        /\ (last.expr.op \notin StorageOps /\ ~FirstEvaluated.res.ok) =>
              last.res = FirstEvaluated.res

\* The stages of a query as the claim words them, on the documents `docs`.
\* a is strictly before b in ascending order of `field`: a document without
\* the field is before one that has it, two strings are in lexicographic order.
StrictlyBefore(a, b, field) ==
    \/ is_none(doc_get(a, field)) /\ is_some(doc_get(b, field))
    \/ /\ is_some(doc_get(a, field)) /\ is_some(doc_get(b, field))
       /\ doc_get(a, field).t = "str" /\ doc_get(b, field).t = "str"
       /\ LexBefore(doc_get(a, field).s, doc_get(b, field).s)
InOrder(s, sort) ==
    \A j \in 1..Len(s) : \A k \in (j + 1)..Len(s) :
        IF sort.order = "desc" THEN ~StrictlyBefore(s[j], s[k], sort.field)
        ELSE ~StrictlyBefore(s[k], s[j], sort.field)
Rearrangements(s) == {[j \in 1..Len(s) |-> s[p[j]]] : p \in Permutations(1..Len(s))}
Dropped(s, skip) == IF is_some(skip) THEN SubSeq(s, skip.v + 1, Len(s)) ELSE s
Truncated(s, limit) ==
    IF is_some(limit) /\ limit.v < Len(s) THEN SubSeq(s, 1, limit.v) ELSE s
\* A stored value that is no object has no fields to project and is kept.
OntoFields(d, select) ==
    IF IsDocument(d)
    THEN Obj([k \in {f \in DOMAIN d.o : \E j \in 1..Len(select) : select[j] = f} |-> d.o[k]])
    ELSE d
Matching(docs) ==
    IF is_some(last.expr.filter) THEN Selected(docs, FilterGiven) ELSE docs

\* C29: the result of a query is, for some arrangement of the matching
\* documents that is in the order of the sort field when sort is given and
\* the stored order otherwise, that arrangement without its first `skip`
\* documents, cut to at most `limit` documents, each projected onto the
\* select fields it has; the stored documents are as they were.
C29_QueryStages ==
    (last.expr.op = "DbQuery" /\ last.res.ok) =>
        /\ collections = last.before.collections
        /\ counter = last.before.counter
        /\ \E s \in Rearrangements(Matching(DocsBefore(last.expr.collection))) :
              /\ IF is_some(last.expr.sort)
                 THEN InOrder(s, last.expr.sort.v[1])
                 ELSE s = Matching(DocsBefore(last.expr.collection))
              /\ last.res.val.a =
                    [j \in 1..Len(Truncated(Dropped(s, last.expr.skip), last.expr.limit)) |->
                        IF is_some(last.expr.select)
                        THEN OntoFields(Truncated(Dropped(s, last.expr.skip),
                                                  last.expr.limit)[j],
                                        last.expr.select.v)
                        ELSE Truncated(Dropped(s, last.expr.skip), last.expr.limit)[j]]

\* A query with filter, sort, skip 1, limit 1 and select on a collection in
\* which at least two documents match: one document, holding only its title.
C29_Witness ==
    /\ last.expr.op = "DbQuery" /\ last.res.ok
    /\ is_some(last.expr.filter) /\ is_some(last.expr.sort)
    /\ last.expr.skip = Some(1) /\ last.expr.limit = Some(1)
    /\ Len(Matching(DocsBefore(last.expr.collection))) >= 2
    /\ Len(DocsBefore(last.expr.collection)) >= 3
    /\ last.res.val.a = <<Obj1(s_title, Str(s_a))>>

(***************************************************************************)
(* Claims about Context (SpecCtx).                                         *)
(***************************************************************************)
\* The value the bindings made so far give the bound name.
LatestBound == IF last.n = 1 THEN input.v1 ELSE input.v2

\* C17: after with_var(n, v1), get(n) is v1; after a second binding of n to v2,
\* get(n) is v2; every other name is bound, or absent, as in the Context the
\* bindings started from.
C17_ContextBinding ==
    last.n >= 1 =>
        /\ get(last.ctx, input.name) = LatestBound
        /\ has(last.ctx, input.name)
        /\ DOMAIN last.ctx = DOMAIN input.ctx \cup {input.name}
        /\ \A m \in DOMAIN last.ctx \cup CtxNames :
              m # input.name => get(last.ctx, m) = get(input.ctx, m)

C17_Witness ==
    /\ last.n = 3
    /\ input.name \in DOMAIN input.ctx
    /\ input.v1 # input.v2
    /\ input.ctx[input.name] # input.v2
    /\ get(last.ctx, input.name) = input.v2

(***************************************************************************)
(* Claims about parallel requests (SpecConc).                              *)
(***************************************************************************)
\* One call made on the database in one piece.
SerialCall(db, call) ==
    CASE call.kind = "insert" -> insert(db, call.collection, call.arg)
      [] call.kind = "update" -> update(db, call.collection, call.filter, call.arg)
      [] call.kind = "delete" -> delete(db, call.collection, call.filter)
      [] call.kind = "query" ->
            [res |-> query(db, call.collection, call.filter, None, None, None, None),
             db |-> db]
\* The calls of the requests made one after the other in the order `order`
\* (a sequence of request numbers), each request's calls in its own order.
RECURSIVE Serial(_, _, _, _)
Serial(order, db, k, results) ==
    IF order = << >> THEN [db |-> db, results |-> results]
    ELSE LET r == SerialCall(db, input.calls[Head(order)][k[Head(order)]])
         IN  Serial(Tail(order), r.db, [k EXCEPT ![Head(order)] = @ + 1],
                    [results EXCEPT ![Head(order)] = Append(@, r.res)])
SerialOrders ==
    {o \in [1..(Len(input.calls[1]) + Len(input.calls[2])) -> Requests] :
        \A t \in Requests : Cardinality({j \in DOMAIN o : o[j] = t}) = Len(input.calls[t])}
\* The storage the requests started from: nothing is removed from ConcStores
\* but by a call, so it is found from the start of the behaviour.
AllFinished == \A t \in Requests : Finished(t)
SerialOutcomes(store) ==
    {Serial(o, [collections |-> store, counter |-> 0, calls |-> << >>],
            [t \in Requests |-> 1], [t \in Requests |-> << >>]) : o \in SerialOrders}

\* C24: when both requests have finished, the collections, the id counter and
\* every result received are those of making the calls one at a time in some
\* order that keeps each request's own order; and while a request is not
\* finished some step can be taken.
C24_Serialized ==
    /\ AllFinished =>
          \E store \in ConcStores : \E s \in SerialOutcomes(store) :
              /\ s.db.collections = collections
              /\ s.db.counter = counter
              /\ \A t \in Requests : s.results[t] = run.req[t].results
    /\ ~AllFinished => ENABLED NextConc

\* Request 1 inserted and then queried, request 2 updated and then inserted:
\* the query saw both inserts, stored in the order request 2, request 1, and
\* the update had not reached request 1's document.
C24_Witness ==
    /\ AllFinished
    /\ input.calls[1] = <<insert_call("posts", << >>), query_call("posts", None)>>
    /\ Len(input.calls[2]) = 2
    /\ input.calls[2][1].kind = "update" /\ input.calls[2][2].kind = "insert"
    /\ Len(run.req[1].results[2].val) = 4
    /\ run.req[1].results[2].val[3] = run.req[2].results[2].val
    /\ run.req[1].results[2].val[4] = run.req[1].results[1].val
    /\ run.req[1].results[1].val = Obj1(s_id, Str(s_id_prefix \o <<50>>))

\* The inserts without an _id that have returned, as <<request, call>> pairs,
\* and the identity each was given.
GeneratedBy ==
    {tk \in Requests \X (1..MaxCalls) :
        /\ tk[2] <= Len(run.req[tk[1]].results)
        /\ input.calls[tk[1]][tk[2]].kind = "insert"
        /\ s_id \notin DOMAIN input.calls[tk[1]][tk[2]].arg}
Generated(tk) == run.req[tk[1]].results[tk[2]].val.o[s_id]

\* C30: the identities generated so far, for whatever collection and whether
\* or not their documents are still stored, are strings and pairwise distinct.
C30_UniqueGenerated ==
    \A a \in GeneratedBy : \A b \in GeneratedBy :
        /\ Generated(a).t = "str"
        /\ a # b => Generated(a) # Generated(b)

\* Three identities generated by two requests, the first document deleted
\* before the last insert, which was into another collection.
C30_Witness ==
    /\ AllFinished
    /\ input.calls[1] = <<insert_call("posts", << >>),
                          delete_call("posts", [k \in {s_title} |-> Null])>>
    /\ input.calls[2] = <<insert_call("posts", << >>), insert_call("users", << >>)>>
    /\ Generated(<<1, 1>>) = Str(s_id_prefix \o <<49>>)
    /\ Generated(<<2, 1>>) = Str(s_id_prefix \o <<50>>)
    /\ Generated(<<2, 2>>) = Str(s_id_prefix \o <<51>>)
    /\ \A j \in 1..Len(collections["posts"]) :
          collections["posts"][j] # run.req[1].results[1].val
    /\ collections["users"] = <<run.req[2].results[2].val>>

=============================================================================
